---------------------------- MODULE Spec2Model ----------------------------
(***************************************************************************)
(* Airborne track tooling: the binary track codec                          *)
(* (track_generator.py / track_extractor.py) and the trajectory analyzer   *)
(* (track_tag_generator.py).                                               *)
(*                                                                         *)
(* Bytes are 0..255.  A uint32 of the program is held as the integer with  *)
(* the same 32-bit pattern that lies in -2^31 .. 2^31-1 (values of 2^31    *)
(* and more appear as negatives), so that every 4-byte pattern an          *)
(* arbitrary buffer can hold has a value; IsHuge/LenOf read such a value   *)
(* back as the large count it is.  A double is its IEEE-754 fields.        *)
(* A string is the sequence of its Unicode code points.                    *)
(***************************************************************************)
EXTENDS Integers, Sequences, FiniteSets, TLC

(* ------------------------------ bounds -------------------------------- *)

\* longest track list of a generated file
MaxTracks == 2
\* number of distinct track templates the generated files draw from
NumTemplates == 3

\* the element of a one-element set: The({ e(x) : x \in { v } }) is e(v), with v
\* computed once
The(S) == CHOOSE x \in S : TRUE

(* ---------------------------- struct 'I' ------------------------------ *)

\* struct.pack('I', v): 4 bytes, least significant first
PackI(v) ==
    << v % 256, (v \div 256) % 256, (v \div 65536) % 256, (v \div 16777216) % 256 >>

\* struct.unpack('I', b)[0] for a 4-byte b
UnpackI(b) ==
    b[1] + (256 * b[2]) + (65536 * b[3])
         + (16777216 * (IF b[4] >= 128 THEN b[4] - 256 ELSE b[4]))

\* a uint32 of 2^31 or more
IsHuge(v) == v < 0

\* min(v, cap) for a uint32 v used as a byte count, cap a small number
LenOf(v, cap) == IF IsHuge(v) \/ v > cap THEN cap ELSE v

(* ---------------------------- struct 'd' ------------------------------ *)

\* 2^k
RECURSIVE Pow2(_)
Pow2(k) == IF k = 0 THEN 1 ELSE 2 * Pow2(k - 1)

\* floor(log2 n), n >= 1
RECURSIVE Log2(_)
Log2(n) == IF n < 2 THEN 0 ELSE 1 + Log2(n \div 2)

\* float(n) for an integer 0 <= |n| < 2^21: sign s, biased exponent e, and the
\* 52-bit fraction f as its 6 low bytes (least significant first) and its top
\* 4 bits
DoubleOf(n) ==
    LET a   == IF n < 0 THEN 0 - n ELSE n
        ex  == Log2(a)
        m20 == (a - Pow2(ex)) * Pow2(20 - ex)
    IN  IF a = 0
        THEN [s |-> 0, e |-> 0, f |-> <<0, 0, 0, 0, 0, 0, 0>>]
        ELSE [s |-> IF n < 0 THEN 1 ELSE 0,
              e |-> 1023 + ex,
              f |-> <<0, 0, 0, 0, m20 % 256, (m20 \div 256) % 256, m20 \div 65536>>]

\* struct.pack('d', x): the 8 bytes of the IEEE-754 double, least significant first
PackD(x) ==
    << x.f[1], x.f[2], x.f[3], x.f[4], x.f[5], x.f[6],
       ((x.e % 16) * 16) + x.f[7],
       (x.s * 128) + (x.e \div 16) >>

\* struct.unpack('d', b)[0] for an 8-byte b
UnpackD(b) ==
    [s |-> b[8] \div 128,
     e |-> ((b[8] % 128) * 16) + (b[7] \div 16),
     f |-> << b[1], b[2], b[3], b[4], b[5], b[6], b[7] % 16 >>]

(* ------------------------------ UTF-8 --------------------------------- *)

\* the UTF-8 bytes of one code point
Utf8Char(cp) ==
    IF cp < 128 THEN << cp >>
    ELSE IF cp < 2048 THEN << 192 + (cp \div 64), 128 + (cp % 64) >>
    ELSE IF cp < 65536
         THEN << 224 + (cp \div 4096), 128 + ((cp \div 64) % 64), 128 + (cp % 64) >>
    ELSE << 240 + (cp \div 262144), 128 + ((cp \div 4096) % 64),
            128 + ((cp \div 64) % 64), 128 + (cp % 64) >>

\* str.encode('utf-8')
RECURSIVE Utf8Encode(_)
Utf8Encode(s) ==
    IF s = << >> THEN << >> ELSE Utf8Char(Head(s)) \o Utf8Encode(Tail(s))

\* length of the sequence a lead byte starts; 0 for a byte that starts none
Utf8SeqLen(b) ==
    IF b < 128 THEN 1
    ELSE IF b >= 194 /\ b <= 223 THEN 2
    ELSE IF b >= 224 /\ b <= 239 THEN 3
    ELSE IF b >= 240 /\ b <= 244 THEN 4
    ELSE 0

\* the bytes after the lead byte at i are continuation bytes, the first of them
\* in the range that excludes overlong forms, surrogates and values past U+10FFFF
Utf8TailOk(bs, i, n) ==
    /\ \A j \in 1..(n - 1) : bs[i + j] >= 128 /\ bs[i + j] <= 191
    /\ (bs[i] = 224) => bs[i + 1] >= 160
    /\ (bs[i] = 237) => bs[i + 1] <= 159
    /\ (bs[i] = 240) => bs[i + 1] >= 144
    /\ (bs[i] = 244) => bs[i + 1] <= 143

\* the code point of the n-byte sequence at i
Utf8CodePoint(bs, i, n) ==
    IF n = 1 THEN bs[i]
    ELSE IF n = 2 THEN ((bs[i] - 192) * 64) + (bs[i + 1] - 128)
    ELSE IF n = 3
         THEN ((bs[i] - 224) * 4096) + ((bs[i + 1] - 128) * 64) + (bs[i + 2] - 128)
    ELSE ((bs[i] - 240) * 262144) + ((bs[i + 1] - 128) * 4096)
             + ((bs[i + 2] - 128) * 64) + (bs[i + 3] - 128)

\* bytes.decode('utf-8') from byte i on, acc the characters decoded so far:
\* ok = FALSE is UnicodeDecodeError; len is the number of bytes given
RECURSIVE Utf8DecodeFrom(_, _, _)
Utf8DecodeFrom(bs, i, acc) ==
    IF i > Len(bs) THEN [ok |-> TRUE, val |-> acc, len |-> Len(bs)]
    ELSE LET n == Utf8SeqLen(bs[i])
         IN  IF n = 0 \/ i + n - 1 > Len(bs)
             THEN [ok |-> FALSE, val |-> << >>, len |-> Len(bs)]
             ELSE IF ~Utf8TailOk(bs, i, n)
             THEN [ok |-> FALSE, val |-> << >>, len |-> Len(bs)]
             ELSE Utf8DecodeFrom(bs, i + n, Append(acc, Utf8CodePoint(bs, i, n)))

\* bytes.decode('utf-8', errors='ignore'): a byte that fits no sequence is skipped
RECURSIVE Utf8IgnoreFrom(_, _, _)
Utf8IgnoreFrom(bs, i, acc) ==
    IF i > Len(bs) THEN [ok |-> TRUE, val |-> acc, len |-> Len(bs)]
    ELSE LET n == Utf8SeqLen(bs[i])
         IN  IF n = 0 \/ i + n - 1 > Len(bs) THEN Utf8IgnoreFrom(bs, i + 1, acc)
             ELSE IF ~Utf8TailOk(bs, i, n) THEN Utf8IgnoreFrom(bs, i + 1, acc)
             ELSE Utf8IgnoreFrom(bs, i + n, Append(acc, Utf8CodePoint(bs, i, n)))

Utf8Decode_Ignore(bs) == Utf8IgnoreFrom(bs, 1, << >>)

\* bytes.decode('utf-8')
Utf8Decode(bs) == Utf8DecodeFrom(bs, 1, << >>)

(* ------------------- TrackGenerator.save_to_binary -------------------- *)

\* b'ATRK'
MAGIC_NUMBER == << 65, 84, 82, 75 >>

VERSION == 1

\* EncodeStr with the length prefix counting characters, not bytes
EncodeStr_CharCount(s) == PackI(Len(s)) \o Utf8Encode(s)

\* a string field: the byte length of its UTF-8 form, then the bytes
EncodeStr(s) == LET b == Utf8Encode(s) IN PackI(Len(b)) \o b

\* one position: six doubles
EncodePosition(p) ==
    PackD(p.timestamp) \o PackD(p.range) \o PackD(p.azimuth)
        \o PackD(p.elevation) \o PackD(p.speed) \o PackD(p.heading)

RECURSIVE EncodePositions(_)
EncodePositions(ps) ==
    IF ps = << >> THEN << >> ELSE EncodePosition(Head(ps)) \o EncodePositions(Tail(ps))

\* one track, as the body of the loop over self.tracks writes it
EncodeTrack(t) ==
    PackI(t.track_id)
        \o EncodeStr(t.track_name) \o EncodeStr(t.track_type)
        \o EncodeStr(t.aircraft_type)
        \o PackD(t.start_time) \o PackD(t.end_time) \o PackD(t.lifetime)
        \o PackI(Len(t.positions)) \o EncodePositions(t.positions)

RECURSIVE EncodeTracks(_)
EncodeTracks(ts) ==
    IF ts = << >> THEN << >> ELSE EncodeTrack(Head(ts)) \o EncodeTracks(Tail(ts))

\* the bytes save_to_binary writes for the generator's track list
save_to_binary(ts) ==
    MAGIC_NUMBER \o PackI(VERSION) \o PackI(Len(ts)) \o EncodeTracks(ts)

(* --------------------- TrackExtractor.read_binary --------------------- *)

\* f.read(n) at offset pos: the bytes there are, at most n of them
ReadBytes(buf, pos, n) == SubSeq(buf, pos + 1, pos + LenOf(n, Len(buf) - pos))

\* the result of a read: kind is "ok" or the exception raised, pos the offset
\* the stream is left at, val the value read
Res(kind, pos, val) == [kind |-> kind, pos |-> pos, val |-> val]

\* struct.unpack('I', f.read(4))[0]
ReadU32(buf, pos) ==
    LET b == ReadBytes(buf, pos, 4)
    IN  IF Len(b) < 4 THEN Res("struct.error", pos + Len(b), 0)
        ELSE Res("ok", pos + 4, UnpackI(b))

\* struct.unpack('d', f.read(8))[0]
ReadF64(buf, pos) ==
    LET b == ReadBytes(buf, pos, 8)
    IN  IF Len(b) < 8 THEN Res("struct.error", pos + Len(b), DoubleOf(0))
        ELSE Res("ok", pos + 8, UnpackD(b))

\* f.read(n).decode('utf-8') for the length n just read
ReadStrBytes(buf, n) ==
    IF n.kind # "ok" THEN Res(n.kind, n.pos, << >>)
    ELSE The({ IF d.ok THEN Res("ok", n.pos + d.len, d.val)
                       ELSE Res("UnicodeDecodeError", n.pos + d.len, << >>) :
               d \in { Utf8Decode(ReadBytes(buf, n.pos, n.val)) } })

\* n = unpack('I', f.read(4)); f.read(n).decode('utf-8')
ReadStr(buf, pos) == The({ ReadStrBytes(buf, n) : n \in { ReadU32(buf, pos) } })

\* one read of _read_track: "I" a uint32, "S" a length-prefixed string, "d" a double
ReadField(buf, pos, fmt) ==
    IF fmt = "I" THEN ReadU32(buf, pos)
    ELSE IF fmt = "S" THEN ReadStr(buf, pos)
    ELSE ReadF64(buf, pos)

\* the reads of `fmts` one after the other, acc the values read so far; the
\* first read that raises ends them
RECURSIVE ReadFields(_, _, _, _)
ReadFields(buf, pos, fmts, acc) ==
    IF fmts = << >> THEN Res("ok", pos, acc)
    ELSE The({ IF r.kind # "ok" THEN Res(r.kind, r.pos, acc)
               ELSE ReadFields(buf, r.pos, Tail(fmts), Append(acc, r.val)) :
               r \in { ReadField(buf, pos, Head(fmts)) } })

\* the position dict literal of _read_track: six doubles in the order of its keys
PositionFromFields(r) ==
    IF r.kind # "ok" THEN r
    ELSE Res("ok", r.pos,
             [timestamp |-> r.val[1], range |-> r.val[2], azimuth |-> r.val[3],
              elevation |-> r.val[4], speed |-> r.val[5], heading |-> r.val[6]])

ReadPosition(buf, pos) ==
    The({ PositionFromFields(r) :
          r \in { ReadFields(buf, pos, << "d", "d", "d", "d", "d", "d" >>, << >>) } })

\* for _ in range(n): positions.append(...), acc the positions read so far
RECURSIVE ReadPositions(_, _, _, _)
ReadPositions(buf, pos, n, acc) ==
    IF n = 0 THEN Res("ok", pos, acc)
    ELSE The({ IF p.kind # "ok" THEN Res(p.kind, p.pos, acc)
               ELSE ReadPositions(buf, p.pos, n - 1, Append(acc, p.val)) :
               p \in { ReadPosition(buf, pos) } })

\* the dict _read_track returns, from its head fields h and its positions ps
TrackFromFields(h, ps) ==
    IF ps.kind # "ok" THEN Res(ps.kind, ps.pos, << >>)
    ELSE Res("ok", ps.pos,
             [track_id |-> h[1], track_name |-> h[2], track_type |-> h[3],
              aircraft_type |-> h[4], start_time |-> h[5], end_time |-> h[6],
              lifetime |-> h[7], positions |-> ps.val])

\* the positions loop of _read_track, after its head fields
ReadTrackPositions(buf, h) ==
    IF h.kind # "ok" THEN Res(h.kind, h.pos, << >>)
    ELSE The({ TrackFromFields(h.val, ps) :
               ps \in { ReadPositions(buf, h.pos, h.val[8], << >>) } })

\* _read_track(f) with f at offset pos: track_id, the three strings, the three
\* times, num_positions, then the positions
read_track(buf, pos) ==
    The({ ReadTrackPositions(buf, h) :
          h \in { ReadFields(buf, pos,
                             << "I", "S", "S", "S", "d", "d", "d", "I" >>, << >>) } })

\* for _ in range(num_tracks): self.tracks.append(self._read_track(f)), acc the
\* value of self.tracks; on an exception acc is what self.tracks keeps
\* the loop of read_binary putting each track it reads before the others
RECURSIVE ReadTracks_Prepend(_, _, _, _)
ReadTracks_Prepend(buf, pos, n, acc) ==
    IF n = 0 THEN Res("ok", pos, acc)
    ELSE The({ IF t.kind # "ok" THEN Res(t.kind, t.pos, acc)
               ELSE ReadTracks_Prepend(buf, t.pos, n - 1, << t.val >> \o acc) :
               t \in { read_track(buf, pos) } })

RECURSIVE ReadTracks(_, _, _, _)
ReadTracks(buf, pos, n, acc) ==
    IF n = 0 THEN Res("ok", pos, acc)
    ELSE The({ IF t.kind # "ok" THEN Res(t.kind, t.pos, acc)
               ELSE ReadTracks(buf, t.pos, n - 1, Append(acc, t.val)) :
               t \in { read_track(buf, pos) } })

\* str(n) for a uint32 n >= 0, as code points
RECURSIVE StrNat(_)
StrNat(n) ==
    IF n < 10 THEN << 48 + n >> ELSE Append(StrNat(n \div 10), 48 + (n % 10))

\* str(n) for a uint32 in its 32-bit form: the decimal digits of its two 16-bit
\* halves hi * 65536 + lo, by long division
RECURSIVE StrHalves(_, _)
StrHalves(hi, lo) ==
    LET rest == ((hi % 10) * 65536) + lo
        qhi  == hi \div 10
        qlo  == rest \div 10
    IN  IF hi = 0 THEN StrNat(lo)
        ELSE Append(StrHalves(qhi + (qlo \div 65536), qlo % 65536), 48 + (rest % 10))

\* str(self.version): self.version is None (<< >>) or an int (<< v >>)
Str(version) ==
    IF version = << >> THEN << 78, 111, 110, 101 >>
    ELSE IF IsHuge(version[1])
         THEN StrHalves((version[1] \div 65536) % 65536, version[1] % 65536)
         ELSE StrNat(version[1])

\* how a read_binary call ends: kind is "ok" or the exception; tracks and
\* version are self.tracks and self.version when it ends; pos is the offset the
\* stream was left at; only a call that ends "ok" returns a value,
\* {'version': str(self.version), 'tracks': self.tracks}
CallEnd(kind, pos, version, tracks) ==
    [kind |-> kind, pos |-> pos, version |-> version, tracks |-> tracks,
     ret_version |-> IF kind = "ok" THEN Str(version) ELSE << >>,
     ret_tracks |-> IF kind = "ok" THEN tracks ELSE << >>]

\* the loop over the tracks, after num_tracks was read (or not)
ReadBody(buf, version, num) ==
    IF num.kind # "ok" THEN CallEnd(num.kind, num.pos, version, << >>)
    ELSE The({ CallEnd(ts.kind, ts.pos, version, ts.val) :
               ts \in { ReadTracks(buf, num.pos, num.val, << >>) } })

\* self.version = ...; num_tracks = ..., after the magic was accepted
ReadHeader(buf, version, ver) ==
    IF ver.kind # "ok" THEN CallEnd(ver.kind, ver.pos, version, << >>)
    ELSE The({ ReadBody(buf, << ver.val >>, num) : num \in { ReadU32(buf, ver.pos) } })

\* read_binary with the magic compared only after the version was read
read_binary_LateCheck(buf, version) ==
    The({ IF ver.kind # "ok" THEN CallEnd(ver.kind, ver.pos, version, << >>)
          ELSE IF ReadBytes(buf, 0, 4) # MAGIC_NUMBER
          THEN CallEnd("ValueError", ver.pos, << ver.val >>, << >>)
          ELSE The({ ReadBody(buf, << ver.val >>, num) :
                     num \in { ReadU32(buf, ver.pos) } }) :
          ver \in { ReadU32(buf, 4) } })

\* read_binary on a file holding buf, by an extractor whose version is `version`:
\* self.tracks = [], the magic, the header, the tracks
read_binary(buf, version) ==
    The({ IF magic # MAGIC_NUMBER
          THEN CallEnd("ValueError", Len(magic), version, << >>)
          ELSE The({ ReadHeader(buf, version, ver) : ver \in { ReadU32(buf, 4) } }) :
          magic \in { ReadBytes(buf, 0, 4) } })

(* ------------------------- the tag generator -------------------------- *)
(* Speeds (knots), headings (degrees) and elevations (feet) are integers.  A  *)
(* mean is the exact fraction num/den.  A standard deviation is held as its   *)
(* square, the population variance, an exact fraction: std < t is             *)
(* variance < t * t.  A total g-force sqrt(1 + g_force ** 2) is held as its   *)
(* load, speed * abs(heading change), of which it is an increasing function:  *)
(* << >> is the int 0 the code returns when no g-force was computed, << p >>  *)
(* the g-force of load p.                                                     *)

Abs(x) == IF x < 0 THEN 0 - x ELSE x

\* track_data[name].values
Column(track_data, name) == [i \in 1..Len(track_data) |-> track_data[i][name]]

\* the sum of the first n elements
RECURSIVE SumTo(_, _)
SumTo(xs, n) == IF n = 0 THEN 0 ELSE xs[n] + SumTo(xs, n - 1)

\* the sum of the squares of the first n elements
RECURSIVE SumSqTo(_, _)
SumSqTo(xs, n) == IF n = 0 THEN 0 ELSE (xs[n] * xs[n]) + SumSqTo(xs, n - 1)

Rat(num, den) == [num |-> num, den |-> den]

\* r < t and r > t for a fraction r of positive denominator and an integer t
Less(r, t) == r.num < t * r.den
Greater(r, t) == r.num > t * r.den

\* np.max, np.min
np_max(xs) == CHOOSE m \in { xs[i] : i \in 1..Len(xs) } : \A i \in 1..Len(xs) : xs[i] <= m
np_min(xs) == CHOOSE m \in { xs[i] : i \in 1..Len(xs) } : \A i \in 1..Len(xs) : xs[i] >= m

\* np.mean
np_mean(xs) == Rat(SumTo(xs, Len(xs)), Len(xs))

\* np.std, as the variance: (n * sum(x^2) - sum(x)^2) / n^2
np_std(xs) ==
    The({ Rat((Len(xs) * SumSqTo(xs, Len(xs))) - (sm * sm), Len(xs) * Len(xs)) :
          sm \in { SumTo(xs, Len(xs)) } })

\* std < t and std > t for a standard deviation held as its variance
StdLess(v, t) == Less(v, t * t)
StdGreater(v, t) == Greater(v, t * t)

\* np.diff
np_diff(xs) == [i \in 1..(Len(xs) - 1) |-> xs[i + 1] - xs[i]]

\* np.abs
np_abs(xs) == [i \in 1..Len(xs) |-> Abs(xs[i])]

SPEED_THRESHOLDS == [very_slow |-> 150, slow |-> 250, moderate |-> 400, fast |-> 550]

G_FORCE_THRESHOLDS ==
    [low |-> 2, moderate |-> 4, high_6g |-> 6, high_8g |-> 8, high_10g |-> 10]

LINEARITY_THRESHOLD == 5

\* ENGINE_CONFIG, in the order of the dict
ENGINE_CONFIG ==
    <<
       [model |-> << 66, 111, 101, 105, 110, 103, 32, 55, 51, 55 >>, config |-> "twin_engine"],   \* 'Boeing 737'
       [model |-> << 65, 105, 114, 98, 117, 115, 32, 65, 51, 50, 48 >>, config |-> "twin_engine"],   \* 'Airbus A320'
       [model |-> << 66, 111, 101, 105, 110, 103, 32, 55, 55, 55 >>, config |-> "twin_engine"],   \* 'Boeing 777'
       [model |-> << 65, 105, 114, 98, 117, 115, 32, 65, 51, 56, 48 >>, config |-> "four_engine"],   \* 'Airbus A380'
       [model |-> << 66, 111, 101, 105, 110, 103, 32, 55, 52, 55 >>, config |-> "four_engine"],   \* 'Boeing 747'
       [model |-> << 67, 101, 115, 115, 110, 97, 32, 49, 55, 50 >>, config |-> "single_engine"],   \* 'Cessna 172'
       [model |-> << 70, 45, 49, 54 >>, config |-> "single_engine"],   \* 'F-16'
       [model |-> << 66, 45, 53, 50 >>, config |-> "eight_engine"]    \* 'B-52'
    >>

\* the largest load whose total g-force is at most G (and then below G):
\* sqrt(1 + (K * p) ** 2) <= G  iff  p <= sqrt(G * G - 1) / K, where
\* K = 0.514444 * (pi / 180) / 30 / 9.81 is g_force / (speed * abs(change))
GLoadLimit ==
    [G \in { 2, 3, 4, 5, 6, 8, 10 } |->
        CASE G = 2 -> 56772 [] G = 3 -> 92708 [] G = 4 -> 126946 [] G = 5 -> 160575
          [] G = 6 -> 193913 [] G = 8 -> 260162 [] G = 10 -> 326131]

GZero == << >>

\* g > G and g < G for a g-force held as its load
GAbove(g, G) == Len(g) = 1 /\ g[1] > GLoadLimit[G]
GBelow(g, G) == Len(g) = 0 \/ g[1] <= GLoadLimit[G]

\* d.update(u)
Update(d, u) == u @@ d

\* the speed bands with a mean on a threshold put in the band below
SpeedTagsOf_Inclusive(avg_speed, speed_variance, max_speed) ==
    << IF ~Greater(avg_speed, SPEED_THRESHOLDS.very_slow) THEN "very_slow_moving"
       ELSE IF ~Greater(avg_speed, SPEED_THRESHOLDS.slow) THEN "slow_moving"
       ELSE IF ~Greater(avg_speed, SPEED_THRESHOLDS.moderate) THEN "moderate_speed"
       ELSE IF ~Greater(avg_speed, SPEED_THRESHOLDS.fast) THEN "fast_moving"
       ELSE "very_fast_moving" >>
    \o (IF StdGreater(speed_variance, 50) THEN << "variable_speed" >>
        ELSE IF StdLess(speed_variance, 10) THEN << "constant_speed" >>
        ELSE << >>)
    \o (IF max_speed > 600 THEN << "supersonic_capable" >> ELSE << >>)

\* calculate_speed_tags: the band of the mean, the variability, the extreme
SpeedTagsOf(avg_speed, speed_variance, max_speed) ==
    << IF Less(avg_speed, SPEED_THRESHOLDS.very_slow) THEN "very_slow_moving"
       ELSE IF Less(avg_speed, SPEED_THRESHOLDS.slow) THEN "slow_moving"
       ELSE IF Less(avg_speed, SPEED_THRESHOLDS.moderate) THEN "moderate_speed"
       ELSE IF Less(avg_speed, SPEED_THRESHOLDS.fast) THEN "fast_moving"
       ELSE "very_fast_moving" >>
    \o (IF StdGreater(speed_variance, 50) THEN << "variable_speed" >>
        ELSE IF StdLess(speed_variance, 10) THEN << "constant_speed" >>
        ELSE << >>)
    \o (IF max_speed > 600 THEN << "supersonic_capable" >> ELSE << >>)

calculate_speed_tags(track_data) ==
    The({ [tags |-> SpeedTagsOf(np_mean(speeds), np_std(speeds), np_max(speeds)),
           metrics |-> [avg_speed |-> np_mean(speeds), max_speed |-> np_max(speeds),
                        min_speed |-> np_min(speeds), speed_std |-> np_std(speeds)]] :
          speeds \in { Column(track_data, "speed") } })

\* calculate_g_forces with the second np.where taking -180 as well
g_heading_changes_Le(headings) ==
    [i \in 1..(Len(headings) - 1) |->
        The({ IF w <= -180 THEN w + 360 ELSE w :
              w \in { IF d > 180 THEN d - 360 ELSE d :
                      d \in { headings[i + 1] - headings[i] } } })]

\* heading_changes of calculate_g_forces: np.diff, then the two np.where
g_heading_changes(headings) ==
    [i \in 1..(Len(headings) - 1) |->
        The({ IF w < -180 THEN w + 360 ELSE w :
              w \in { IF d > 180 THEN d - 360 ELSE d :
                      d \in { np_diff(headings)[i] } } })]

\* the loop of calculate_g_forces without the 0.1 floor
RECURSIVE GForces_NoFloor(_, _, _)
GForces_NoFloor(speeds, heading_changes, n) ==
    IF n = 0 THEN << >>
    ELSE Append(GForces_NoFloor(speeds, heading_changes, n - 1),
                speeds[n] * Abs(heading_changes[n]))

\* g_forces after the first n turns of the loop: a change above the 0.1 floor
\* adds the g-force of speeds[i] turning by it in dt
RECURSIVE GForces(_, _, _)
GForces(speeds, heading_changes, n) ==
    IF n = 0 THEN << >>
    ELSE IF 10 * Abs(heading_changes[n]) > 1
    THEN Append(GForces(speeds, heading_changes, n - 1),
                speeds[n] * Abs(heading_changes[n]))
    ELSE GForces(speeds, heading_changes, n - 1)

\* the bands of calculate_g_forces tested from the lowest threshold up
GTagOf_LowFirst(max_g) ==
    IF GAbove(max_g, G_FORCE_THRESHOLDS.low) THEN "light_maneuvering_2g_4g"
    ELSE IF GAbove(max_g, G_FORCE_THRESHOLDS.moderate) THEN "moderate_maneuvering_4g_6g"
    ELSE IF GAbove(max_g, G_FORCE_THRESHOLDS.high_6g) THEN "high_maneuvering_6g_8g"
    ELSE IF GAbove(max_g, G_FORCE_THRESHOLDS.high_8g) THEN "extreme_maneuvering_8g_10g"
    ELSE IF GAbove(max_g, G_FORCE_THRESHOLDS.high_10g) THEN "extreme_maneuvering_10g_plus"
    ELSE "minimal_maneuvering"

GTagOf(max_g) ==
    IF GAbove(max_g, G_FORCE_THRESHOLDS.high_10g) THEN "extreme_maneuvering_10g_plus"
    ELSE IF GAbove(max_g, G_FORCE_THRESHOLDS.high_8g) THEN "extreme_maneuvering_8g_10g"
    ELSE IF GAbove(max_g, G_FORCE_THRESHOLDS.high_6g) THEN "high_maneuvering_6g_8g"
    ELSE IF GAbove(max_g, G_FORCE_THRESHOLDS.moderate) THEN "moderate_maneuvering_4g_6g"
    ELSE IF GAbove(max_g, G_FORCE_THRESHOLDS.low) THEN "light_maneuvering_2g_4g"
    ELSE "minimal_maneuvering"

\* the end of calculate_g_forces, g_forces computed; avg_g is held as the loads
\* whose g-forces it is the mean of
GForceResult(g_forces, heading_changes) ==
    IF Len(g_forces) = 0
    THEN [tags |-> << >>, metrics |-> [max_g |-> GZero, avg_g |-> GZero],
          heading_changes |-> heading_changes]
    ELSE [tags |-> << GTagOf(<< np_max(g_forces) >>) >>,
          metrics |-> [max_g |-> << np_max(g_forces) >>, avg_g |-> g_forces],
          heading_changes |-> heading_changes]

\* calculate_g_forces with dt taken from the timestamps of consecutive rows
\* where they grow, a load being in units of dt = 30
calculate_g_forces_Dt(track_data) ==
    IF Len(track_data) < 3
    THEN [tags |-> << >>, metrics |-> [max_g |-> GZero, avg_g |-> GZero],
          heading_changes |-> << >>]
    ELSE The({ GForceResult(
                 GForces([i \in 1..Len(track_data) |->
                            IF i < Len(track_data)
                               /\ track_data[i + 1].timestamp > track_data[i].timestamp
                            THEN (track_data[i].speed * 30)
                                 \div (track_data[i + 1].timestamp - track_data[i].timestamp)
                            ELSE track_data[i].speed],
                         hc, Len(hc)), hc) :
               hc \in { g_heading_changes(Column(track_data, "heading")) } })

\* calculate_g_forces; heading_changes is its local of that name when it returns
calculate_g_forces(track_data) ==
    IF Len(track_data) < 3
    THEN [tags |-> << >>, metrics |-> [max_g |-> GZero, avg_g |-> GZero],
          heading_changes |-> << >>]
    ELSE The({ GForceResult(GForces(Column(track_data, "speed"), hc, Len(hc)), hc) :
               hc \in { g_heading_changes(Column(track_data, "heading")) } })

\* calculate_linearity with only the first np.where
lin_heading_changes_High(headings) ==
    [i \in 1..(Len(headings) - 1) |->
        IF headings[i + 1] - headings[i] > 180
        THEN headings[i + 1] - headings[i] - 360
        ELSE headings[i + 1] - headings[i]]

\* heading_changes of calculate_linearity: np.diff, then the two np.where
lin_heading_changes(headings) ==
    [i \in 1..(Len(headings) - 1) |->
        IF headings[i + 1] - headings[i] > 180
        THEN headings[i + 1] - headings[i] - 360
        ELSE IF headings[i + 1] - headings[i] < -180
        THEN headings[i + 1] - headings[i] + 360
        ELSE headings[i + 1] - headings[i]]

\* the linearity bands with a deviation on a threshold put in the band below
LinearityTagsOf_Inclusive(heading_std, max_heading_change) ==
    (IF ~StdGreater(heading_std, LINEARITY_THRESHOLD)
     THEN << "linear_path", "straight_flight" >>
     ELSE IF ~StdGreater(heading_std, 15) THEN << "mostly_linear" >>
     ELSE << "curved_path" >>)
    \o (IF StdGreater(heading_std, 30) THEN << "serpentine_pattern" >> ELSE << >>)
    \o (IF max_heading_change > 90 THEN << "sharp_turns" >>
        ELSE IF max_heading_change > 45 THEN << "moderate_turns" >>
        ELSE << >>)

\* the linearity tags with the turn tags tested from the lower threshold up
LinearityTagsOf_ModerateFirst(heading_std, max_heading_change) ==
    (IF StdLess(heading_std, LINEARITY_THRESHOLD) THEN << "linear_path", "straight_flight" >>
     ELSE IF StdLess(heading_std, 15) THEN << "mostly_linear" >>
     ELSE << "curved_path" >>)
    \o (IF StdGreater(heading_std, 30) THEN << "serpentine_pattern" >> ELSE << >>)
    \o (IF max_heading_change > 45 THEN << "moderate_turns" >>
        ELSE IF max_heading_change > 90 THEN << "sharp_turns" >>
        ELSE << >>)

LinearityTagsOf(heading_std, max_heading_change) ==
    (IF StdLess(heading_std, LINEARITY_THRESHOLD) THEN << "linear_path", "straight_flight" >>
     ELSE IF StdLess(heading_std, 15) THEN << "mostly_linear" >>
     ELSE << "curved_path" >>)
    \o (IF StdGreater(heading_std, 30) THEN << "serpentine_pattern" >> ELSE << >>)
    \o (IF max_heading_change > 90 THEN << "sharp_turns" >>
        ELSE IF max_heading_change > 45 THEN << "moderate_turns" >>
        ELSE << >>)

\* calculate_linearity; heading_changes is its local of that name when it returns
calculate_linearity(track_data) ==
    IF Len(track_data) < 3
    THEN [tags |-> << >>, metrics |-> [heading_std |-> Rat(0, 1)],
          heading_changes |-> << >>]
    ELSE The({ [tags |-> LinearityTagsOf(np_std(hc), np_max(np_abs(hc))),
                metrics |-> [heading_std |-> np_std(hc), max_turn |-> np_max(np_abs(hc))],
                heading_changes |-> hc] :
               hc \in { lin_heading_changes(Column(track_data, "heading")) } })

\* the altitude tags with a mean on a bound put in the band above, and a mean
\* rate on the edge of the deadband outside it
AltitudeTagsOf_Inclusive(avg_elev, elevation_change, climb) ==
    << IF ~Less(avg_elev, 40000) THEN "high_altitude"
       ELSE IF ~Less(avg_elev, 25000) THEN "cruise_altitude"
       ELSE IF ~Less(avg_elev, 10000) THEN "medium_altitude"
       ELSE "low_altitude" >>
    \o (IF elevation_change < 1000 THEN << "level_flight" >>
        ELSE IF elevation_change > 20000 THEN << "large_altitude_change" >>
        ELSE << >>)
    \o (IF ~Less(climb, 100) THEN << "climbing" >>
        ELSE IF ~Greater(climb, -100) THEN << "descending" >>
        ELSE << >>)

AltitudeTagsOf(avg_elev, elevation_change, climb) ==
    << IF Greater(avg_elev, 40000) THEN "high_altitude"
       ELSE IF Greater(avg_elev, 25000) THEN "cruise_altitude"
       ELSE IF Greater(avg_elev, 10000) THEN "medium_altitude"
       ELSE "low_altitude" >>
    \o (IF elevation_change < 1000 THEN << "level_flight" >>
        ELSE IF elevation_change > 20000 THEN << "large_altitude_change" >>
        ELSE << >>)
    \o (IF Greater(climb, 100) THEN << "climbing" >>
        ELSE IF Less(climb, -100) THEN << "descending" >>
        ELSE << >>)

\* calculate_altitude_behavior: under 2 samples the metrics have no avg_elevation
calculate_altitude_behavior(track_data) ==
    IF Len(track_data) < 2
    THEN [tags |-> << >>, metrics |-> [elevation_change |-> 0]]
    ELSE The({ [tags |-> AltitudeTagsOf(np_mean(elevations),
                                        np_max(elevations) - np_min(elevations),
                                        np_mean(np_diff(elevations))),
                metrics |-> [elevation_change |-> np_max(elevations) - np_min(elevations),
                             avg_elevation |-> np_mean(elevations)]] :
               elevations \in { Column(track_data, "elevation") } })

\* str.lower() of a string of ASCII letters and of characters that have no
\* lower-case form of their own
Lower(s) == [i \in 1..Len(s) |-> IF s[i] >= 65 /\ s[i] <= 90 THEN s[i] + 32 ELSE s[i]]

\* sub in s
Contains(sub, s) ==
    \E i \in 0..(Len(s) - Len(sub)) : SubSeq(s, i + 1, i + Len(sub)) = sub

\* the table matched from its last entry to its first
RECURSIVE EngineFrom_LastMatch(_, _)
EngineFrom_LastMatch(aircraft_type, n) ==
    IF n > Len(ENGINE_CONFIG)
    THEN IF \E x \in { << 55, 51, 55 >>, << 97, 51, 50, 48 >>, << 55, 55, 55 >>, << 55, 56, 55 >>, << 97, 51, 51, 48 >> } :
                Contains(x, Lower(aircraft_type))
         THEN [tag |-> "twin_engine", config |-> "twin_engine"]
         ELSE IF \E x \in { << 55, 52, 55 >>, << 97, 51, 56, 48 >>, << 97, 51, 52, 48 >> } :
                Contains(x, Lower(aircraft_type))
         THEN [tag |-> "four_engine", config |-> "four_engine"]
         ELSE [tag |-> "unknown_engine_config", config |-> "unknown"]
    ELSE IF Contains(Lower(ENGINE_CONFIG[Len(ENGINE_CONFIG) + 1 - n].model), Lower(aircraft_type))
    THEN [tag |-> ENGINE_CONFIG[Len(ENGINE_CONFIG) + 1 - n].config,
          config |-> ENGINE_CONFIG[Len(ENGINE_CONFIG) + 1 - n].config]
    ELSE EngineFrom_LastMatch(aircraft_type, n + 1)

\* the first n entries of ENGINE_CONFIG did not match: the next ones, then the
\* patterns of the default classification
RECURSIVE EngineFrom(_, _)
EngineFrom(aircraft_type, n) ==
    IF n > Len(ENGINE_CONFIG)
    THEN IF \E x \in { << 55, 51, 55 >>, << 97, 51, 50, 48 >>, << 55, 55, 55 >>, << 55, 56, 55 >>, << 97, 51, 51, 48 >> } :
                Contains(x, Lower(aircraft_type))
         THEN [tag |-> "twin_engine", config |-> "twin_engine"]
         ELSE IF \E x \in { << 55, 52, 55 >>, << 97, 51, 56, 48 >>, << 97, 51, 52, 48 >> } :
                Contains(x, Lower(aircraft_type))
         THEN [tag |-> "four_engine", config |-> "four_engine"]
         ELSE [tag |-> "unknown_engine_config", config |-> "unknown"]
    ELSE IF Contains(Lower(ENGINE_CONFIG[n].model), Lower(aircraft_type))
    THEN [tag |-> ENGINE_CONFIG[n].config, config |-> ENGINE_CONFIG[n].config]
    ELSE EngineFrom(aircraft_type, n + 1)

\* the lookup with the engine_config metric used as the tag
get_engine_configuration_ConfigAsTag(aircraft_type) ==
    The({ [tags |-> << e.config >>, metrics |-> [engine_config |-> e.config]] :
          e \in { EngineFrom(aircraft_type, 1) } })

get_engine_configuration(aircraft_type) ==
    The({ [tags |-> << e.tag >>, metrics |-> [engine_config |-> e.config]] :
          e \in { EngineFrom(aircraft_type, 1) } })

\* the three if statements of classify_aircraft_role; the last one looks up
\* altitude_metrics['avg_elevation'] when avg_speed < 200
\* the role rules with the elif of the tactical rule an if of its own
RoleOf_SeparateIfs(avg_speed, max_g, heading_std, altitude_metrics) ==
    IF Less(avg_speed, 200) /\ "avg_elevation" \notin DOMAIN altitude_metrics
    THEN [kind |-> "KeyError", tags |-> << >>]
    ELSE [kind |-> "ok",
          tags |->
            (IF GAbove(max_g, 5) /\ Greater(avg_speed, 400)
             THEN << "military_fighter_profile" >>
             ELSE << >>)
            \o (IF GAbove(max_g, 3) /\ StdGreater(heading_std, 20)
                THEN << "tactical_maneuvering" >>
                ELSE << >>)
            \o (IF StdLess(heading_std, 10) /\ Greater(avg_speed, 250)
                   /\ Less(avg_speed, 500) /\ GBelow(max_g, 2)
                THEN << "commercial_airliner_profile" >>
                ELSE << >>)
            \o (IF Less(avg_speed, 200) /\ Less(altitude_metrics.avg_elevation, 15000)
                THEN << "general_aviation_profile" >>
                ELSE << >>)]

RoleOf(avg_speed, max_g, heading_std, altitude_metrics) ==
    IF Less(avg_speed, 200) /\ "avg_elevation" \notin DOMAIN altitude_metrics
    THEN [kind |-> "KeyError", tags |-> << >>]
    ELSE [kind |-> "ok",
          tags |->
            (IF GAbove(max_g, 5) /\ Greater(avg_speed, 400)
             THEN << "military_fighter_profile" >>
             ELSE IF GAbove(max_g, 3) /\ StdGreater(heading_std, 20)
             THEN << "tactical_maneuvering" >>
             ELSE << >>)
            \o (IF StdLess(heading_std, 10) /\ Greater(avg_speed, 250)
                   /\ Less(avg_speed, 500) /\ GBelow(max_g, 2)
                THEN << "commercial_airliner_profile" >>
                ELSE << >>)
            \o (IF Less(avg_speed, 200) /\ Less(altitude_metrics.avg_elevation, 15000)
                THEN << "general_aviation_profile" >>
                ELSE << >>)]

classify_aircraft_role(track_data) ==
    RoleOf(calculate_speed_tags(track_data).metrics.avg_speed,
           calculate_g_forces(track_data).metrics.max_g,
           calculate_linearity(track_data).metrics.heading_std,
           calculate_altitude_behavior(track_data).metrics)

\* f"{track_type}_track"
TrackTypeTag(track_type) ==
    CASE track_type = "incoming" -> "incoming_track"
      [] track_type = "outgoing" -> "outgoing_track"

\* generate_tags_for_track once the role tags are there (or were not)
AllTagsOf(track_data, s, g, l, a, e, role) ==
    IF role.kind # "ok" THEN [kind |-> role.kind, tags |-> << >>, metrics |-> << >>]
    ELSE [kind |-> "ok",
          tags |-> s.tags \o g.tags \o l.tags \o a.tags \o e.tags \o role.tags
                   \o << TrackTypeTag(track_data[1].track_type) >>,
          metrics |-> Update(Update(Update(Update(s.metrics, g.metrics), l.metrics),
                                    a.metrics), e.metrics)]

\* generate_tags_for_track, for the rows of one track
generate_tags_for_track(track_data) ==
    IF Len(track_data) = 0 THEN [kind |-> "ok", tags |-> << >>, metrics |-> << >>]
    ELSE The({ AllTagsOf(track_data, s, g, l, a, e, role) :
               s \in { calculate_speed_tags(track_data) },
               g \in { calculate_g_forces(track_data) },
               l \in { calculate_linearity(track_data) },
               a \in { calculate_altitude_behavior(track_data) },
               e \in { get_engine_configuration(track_data[1].aircraft_type) },
               role \in { classify_aircraft_role(track_data) } })

\* Series.unique(): the values in the order they first appear
RECURSIVE unique(_)
unique(values) ==
    IF Len(values) = 0 THEN << >>
    ELSE The({ IF \E i \in 1..Len(u) : u[i] = values[Len(values)]
               THEN u
               ELSE Append(u, values[Len(values)]) :
               u \in { unique(SubSeq(values, 1, Len(values) - 1)) } })

\* df[df['track_id'] == track_id]: the rows of the track, in the order of the table
TrackRows(df, track_id) == SelectSeq(df, LAMBDA row : row.track_id = track_id)

\* '; '.join(tags), held as the tags with the separator between them
RECURSIVE Join(_)
Join(tags) ==
    IF Len(tags) = 0 THEN << >>
    ELSE IF Len(tags) = 1 THEN << tags[1] >>
    ELSE Join(SubSeq(tags, 1, Len(tags) - 1)) \o << "; ", tags[Len(tags)] >>

\* tags_list after the loop of generate_all_tags has taken the first n track
\* ids, the joined tags of a track once for each of its rows; or the exception
\* generate_tags_for_track ended the loop with
RECURSIVE TagsList(_, _, _)
TagsList(df, track_ids, n) ==
    IF n = 0 THEN [kind |-> "ok", tags_list |-> << >>]
    ELSE The({ IF prev.kind # "ok" THEN prev
               ELSE IF r.kind # "ok" THEN [kind |-> r.kind, tags_list |-> << >>]
               ELSE [kind |-> "ok",
                     tags_list |-> prev.tags_list
                                   \o [idx \in 1..Len(TrackRows(df, track_ids[n])) |->
                                          Join(r.tags)]] :
               prev \in { TagsList(df, track_ids, n - 1) },
               r \in { generate_tags_for_track(TrackRows(df, track_ids[n])) } })

\* a row with the value of one more column
WithColumn(row, column, value) ==
    [c \in DOMAIN row \cup { column } |-> IF c = column THEN value ELSE row[c]]

\* self.df['ai_generated_tags'] = tags_list: the i-th value goes to the i-th row
SetTagsColumn(df, tags_list) ==
    [i \in 1..Len(df) |-> WithColumn(df[i], "ai_generated_tags", tags_list[i])]

\* generate_all_tags on a loaded table: the table and the flag it leaves
generate_all_tags(df, tags_generated) ==
    The({ IF t.kind # "ok"
          THEN [kind |-> t.kind, df |-> df, tags_generated |-> tags_generated]
          ELSE [kind |-> "ok", df |-> SetTagsColumn(df, t.tags_list),
                tags_generated |-> TRUE] :
          t \in { The({ TagsList(df, track_ids, Len(track_ids)) :
                        track_ids \in { unique(Column(df, "track_id")) } }) } })

\* tags_str.split('; '): the tags between the separators; ''.split('; ') is ['']
Split(tags_str) ==
    IF Len(tags_str) = 0 THEN << "" >>
    ELSE [i \in 1..((Len(tags_str) + 1) \div 2) |-> tags_str[(2 * i) - 1]]

\* all_tags after the loop of get_tag_statistics has taken the first n strings
RECURSIVE AllTagsFrom(_, _)
AllTagsFrom(strings, n) ==
    IF n = 0 THEN << >>
    ELSE AllTagsFrom(strings, n - 1) \o Split(strings[n])

\* Counter(all_tags): each tag with the number of times it is in the list
Counter(all_tags) ==
    [t \in { all_tags[i] : i \in 1..Len(all_tags) } |->
        Cardinality({ i \in 1..Len(all_tags) : all_tags[i] = t })]

\* get_tag_statistics: << >> is None, << c >> the Counter c
get_tag_statistics(df, tags_generated) ==
    IF ~tags_generated THEN [kind |-> "ok", returned |-> << >>]
    ELSE IF \E i \in 1..Len(df) : "ai_generated_tags" \notin DOMAIN df[i]
    THEN [kind |-> "KeyError", returned |-> << >>]
    ELSE The({ [kind |-> "ok", returned |-> << Counter(AllTagsFrom(strings, Len(strings))) >>] :
               strings \in { unique(Column(df, "ai_generated_tags")) } })

\* save_tagged_csv without the test of tags_generated
save_tagged_csv_NoCheck(df, tags_generated) ==
    [kind |-> "ok", written |-> << df >>]

\* save_tagged_csv: << >> is no file written, << t >> a file of the table t
save_tagged_csv(df, tags_generated) ==
    IF ~tags_generated THEN [kind |-> "ValueError", written |-> << >>]
    ELSE [kind |-> "ok", written |-> << df >>]

(* ------------------------------- state -------------------------------- *)

VARIABLES
    gen_tracks,     \* TrackGenerator.tracks
    file_version,   \* the version of the in-memory track file (spec, TrackFile.version)
    disk,           \* the bytes of the binary file
    tamper,         \* what was done to the file after it was saved
    ext_tracks,     \* TrackExtractor.tracks
    ext_version,    \* TrackExtractor.version: << >> is None, << v >> an int
    last,           \* how the last read_binary ended, and what it returned
    phase,          \* "new", "saved", "tampered", "read"
    calls,          \* the read_binary calls under way: where each is, its locals
    objs,           \* the TrackExtractor objects: the list self.tracks names, self.version
    lists,          \* the list objects, by identity
    track_data,     \* the rows of one track of the DataFrame
    tag_call,       \* the method of TrackTagGenerator that was called, or "none"
    tag_out,        \* how the call ended, and what it returned
    heading_changes, \* the local heading_changes of the call when it returned
    df,             \* TrackTagGenerator.df: the rows of the table, in file order
    tags_generated, \* TrackTagGenerator.tags_generated
    view_tracks,    \* TrackViewerGUI.tracks, the tracks the listbox shows
    selected_track_index, \* TrackViewerGUI.selected_track_index: << >> is None, << i >> an int
    csv_file_path,  \* TrackViewerGUI.csv_file_path: << >> is None, << p >> a path
    csv_files,      \* the CSV files on disk, by path: << >> is no file, << t >> its rows
    view_last       \* the last handler of the viewer that ran, and how it ended

codec_vars ==
    << gen_tracks, file_version, disk, tamper, ext_tracks, ext_version, last, phase >>

conc_vars == << calls, objs, lists >>

tag_vars == << track_data, tag_call, tag_out, heading_changes >>

table_vars == << df, tags_generated >>

viewer_vars ==
    << view_tracks, selected_track_index, csv_file_path, csv_files, view_last >>

vars == << codec_vars, conc_vars, tag_vars, table_vars, viewer_vars >>

(* --------------------------- generated files -------------------------- *)

\* the strings of template i: ASCII, empty, 2-byte and 3-byte characters
NameOf(i) == IF i % 3 = 1 THEN << 65, 49 >> ELSE IF i % 3 = 2 THEN << >> ELSE << 233 >>
TypeOf(i) == IF i % 2 = 1 THEN << 105, 110 >> ELSE << 8364 >>
AircraftOf(i) ==
    IF i % 3 = 1 THEN << 66, 55 >> ELSE IF i % 3 = 2 THEN << 65, 233 >> ELSE << >>

\* sample j of template i
PositionOf(i, j) ==
    [timestamp |-> DoubleOf((600 * i) + (30 * j)),
     range     |-> DoubleOf(150 - j),
     azimuth   |-> DoubleOf(90 + j),
     elevation |-> DoubleOf(1000 - (2000 * (j - 1))),
     speed     |-> DoubleOf(450 - (10 * i)),
     heading   |-> DoubleOf(270 + j)]

\* template i: (i - 1) % 3 positions; an even template carries a lifetime that
\* is not end_time - start_time
TrackOf(i) ==
    [track_id      |-> (1000 * (NumTemplates + 1 - i)) + 1,
     track_name    |-> NameOf(i),
     track_type    |-> TypeOf(i),
     aircraft_type |-> AircraftOf(i),
     start_time    |-> DoubleOf(600 * i),
     end_time      |-> DoubleOf((600 * i) + 1800),
     lifetime      |-> IF i % 2 = 1 THEN DoubleOf(1800) ELSE DoubleOf(30),
     positions     |-> [j \in 1..((i - 1) % 3) |-> PositionOf(i, j)]]

\* the track lists a generator holds: n consecutive templates from `first` on
FileOf(n, first) == [k \in 1..n |-> TrackOf(((first + k - 2) % NumTemplates) + 1)]

Files == { FileOf(n, first) : n \in 0..MaxTracks, first \in 1..NumTemplates }

\* the version numbers an in-memory track file is given
Versions == 1..2

\* the values a byte of the file is overwritten with
TamperVals == { 0, 2, 255 }

NoTamper == [op |-> "none", at |-> 0]

NoCall == [kind |-> "none", pos |-> 0, ret_version |-> << >>, ret_tracks |-> << >>]

NoTags == [kind |-> "none", tags |-> << >>, metrics |-> << >>]

\* no file, no extractor at work
CodecIdle ==
    /\ gen_tracks = << >>
    /\ file_version = VERSION
    /\ disk = << >>
    /\ tamper = NoTamper
    /\ ext_tracks = << >>
    /\ ext_version = << >>
    /\ last = NoCall
    /\ phase = "idle"

\* no read_binary call under way
ConcIdle ==
    /\ calls = << >>
    /\ objs = << >>
    /\ lists = << >>

\* no track loaded in a tag generator
TagIdle ==
    /\ track_data = << >>
    /\ tag_call = "none"
    /\ tag_out = NoTags
    /\ heading_changes = << >>

\* a tag generator whose table is not looked at
TableIdle ==
    /\ df = << >>
    /\ tags_generated = FALSE

\* the paths a CSV file is written to: one the user picks, and the one
\* _generate_ai_tags exports to, 'airborne_tracks_extracted.csv'
CsvPaths == { "tracks.csv", "airborne_tracks_extracted.csv" }

NoHandler == [handler |-> "none", kind |-> "none", written |-> << >>]

\* TrackViewerGUI(root), and no CSV file on disk
ViewerIdle ==
    /\ view_tracks = << >>
    /\ selected_track_index = << >>
    /\ csv_file_path = << >>
    /\ csv_files = [p \in CsvPaths |-> << >>]
    /\ view_last = NoHandler

(* ------------------------------ actions ------------------------------- *)

\* TrackExtractor() and a TrackGenerator holding a track list
InitCodec ==
    /\ gen_tracks \in Files
    /\ file_version \in Versions
    /\ disk = << >>
    /\ tamper = NoTamper
    /\ ext_tracks = << >>
    /\ ext_version = << >>
    /\ last = NoCall
    /\ phase = "new"
    /\ ConcIdle
    /\ TagIdle
    /\ TableIdle
    /\ ViewerIdle

\* generator.save_to_binary(filename)
SaveToBinary ==
    /\ phase = "new"
    /\ disk' = save_to_binary(gen_tracks)
    /\ phase' = "saved"
    /\ UNCHANGED << gen_tracks, file_version, tamper, ext_tracks, ext_version, last >>
    /\ UNCHANGED << conc_vars, tag_vars, table_vars, viewer_vars >>

\* the file loses its end: only its first k bytes are left
Truncate(k) ==
    /\ phase = "saved"
    /\ k < Len(disk)
    /\ disk' = SubSeq(disk, 1, k)
    /\ tamper' = [op |-> "truncate", at |-> k]
    /\ phase' = "tampered"
    /\ UNCHANGED << gen_tracks, file_version, ext_tracks, ext_version, last >>
    /\ UNCHANGED << conc_vars, tag_vars, table_vars, viewer_vars >>

\* byte i of the file is overwritten
SetByte(i, v) ==
    /\ phase = "saved"
    /\ disk[i] # v
    /\ disk' = [disk EXCEPT ![i] = v]
    /\ tamper' = [op |-> "setbyte", at |-> i]
    /\ phase' = "tampered"
    /\ UNCHANGED << gen_tracks, file_version, ext_tracks, ext_version, last >>
    /\ UNCHANGED << conc_vars, tag_vars, table_vars, viewer_vars >>

\* a byte is written after the last track
AppendByte(v) ==
    /\ phase = "saved"
    /\ disk' = Append(disk, v)
    /\ tamper' = [op |-> "append", at |-> Len(disk) + 1]
    /\ phase' = "tampered"
    /\ UNCHANGED << gen_tracks, file_version, ext_tracks, ext_version, last >>
    /\ UNCHANGED << conc_vars, tag_vars, table_vars, viewer_vars >>

\* extractor.read_binary(filename)
ReadBinary ==
    /\ phase \in { "saved", "tampered" }
    /\ \E r \in { read_binary(disk, ext_version) } :
           /\ ext_tracks' = r.tracks
           /\ ext_version' = r.version
           /\ last' = [kind |-> r.kind, pos |-> r.pos,
                       ret_version |-> r.ret_version, ret_tracks |-> r.ret_tracks]
    /\ phase' = "read"
    /\ UNCHANGED << gen_tracks, file_version, disk, tamper >>
    /\ UNCHANGED << conc_vars, tag_vars, table_vars, viewer_vars >>

\* extractor.get_tracks()
get_tracks == ext_tracks

NextCodec ==
    \/ SaveToBinary
    \/ \E k \in 0..Len(disk) : Truncate(k)
    \/ \E i \in 1..Len(disk), v \in TamperVals : SetByte(i, v)
    \/ \E v \in TamperVals : AppendByte(v)
    \/ ReadBinary

SpecCodec == InitCodec /\ [][NextCodec]_vars

(* ------------------ two read_binary calls under way ------------------- *)
(* read_binary in steps: self.tracks = [], the magic, the version, the      *)
(* count, one step per track, the return.  A list is an object: self.tracks  *)
(* names one, append changes it in place, and the dict returned holds the    *)
(* list itself.                                                              *)

Calls == { 1, 2 }
Objects == { 1, 2 }

\* the list TrackExtractor() gave object o, and the list call c makes
ListOfObject(o) == o
ListOfCall(c) == Cardinality(Objects) + c

\* the files read: what the generator wrote, the same with version 2, the same
\* without its last byte
ConcFiles == { save_to_binary(FileOf(n, first)) : n \in 1..MaxTracks, first \in 1..NumTemplates }
ConcBufs ==
    ConcFiles \cup { [b EXCEPT ![5] = 2] : b \in ConcFiles }
              \cup { SubSeq(b, 1, Len(b) - 1) : b \in ConcFiles }

NewCall(buf, o) ==
    [pc |-> "start", buf |-> buf, obj |-> o, pos |-> 0, left |-> 0,
     kind |-> "none", ret_version |-> << >>, ret_list |-> 0]

\* call 1 on object 1, call 2 on object 1 or 2, on two different files
InitConc ==
    /\ CodecIdle
    /\ TagIdle
    /\ TableIdle
    /\ ViewerIdle
    /\ \E b1 \in ConcFiles, o2 \in Objects :
         \E b2 \in ConcBufs \ { b1 } :
           calls = [c \in Calls |-> IF c = 1 THEN NewCall(b1, 1) ELSE NewCall(b2, o2)]
    /\ objs = [o \in Objects |-> [tracks |-> ListOfObject(o), version |-> << >>]]
    /\ lists = [l \in 1..(Cardinality(Objects) + Cardinality(Calls)) |-> << >>]

Raised(call, kind) == [call EXCEPT !.pc = "raised", !.kind = kind]

\* self.tracks = []
CallOpen(c) ==
    /\ calls[c].pc = "start"
    /\ objs' = [objs EXCEPT ![calls[c].obj].tracks = ListOfCall(c)]
    /\ lists' = [lists EXCEPT ![ListOfCall(c)] = << >>]
    /\ calls' = [calls EXCEPT ![c].pc = "magic"]
    /\ UNCHANGED << codec_vars, tag_vars, table_vars, viewer_vars >>

\* magic = f.read(4); if magic != self.MAGIC_NUMBER: raise ValueError
CallMagic(c) ==
    /\ calls[c].pc = "magic"
    /\ \E magic \in { ReadBytes(calls[c].buf, 0, 4) } :
         calls' = [calls EXCEPT ![c] =
                      IF magic # MAGIC_NUMBER THEN Raised(@, "ValueError")
                      ELSE [@ EXCEPT !.pc = "version", !.pos = Len(magic)]]
    /\ UNCHANGED << codec_vars, tag_vars, table_vars, viewer_vars, objs, lists >>

\* self.version = struct.unpack('I', f.read(4))[0]
CallVersion(c) ==
    /\ calls[c].pc = "version"
    /\ \E ver \in { ReadU32(calls[c].buf, calls[c].pos) } :
         IF ver.kind # "ok"
         THEN /\ calls' = [calls EXCEPT ![c] = Raised(@, ver.kind)]
              /\ UNCHANGED objs
         ELSE /\ calls' = [calls EXCEPT ![c].pc = "count", ![c].pos = ver.pos]
              /\ objs' = [objs EXCEPT ![calls[c].obj].version = << ver.val >>]
    /\ UNCHANGED << codec_vars, tag_vars, table_vars, viewer_vars, lists >>

\* num_tracks = struct.unpack('I', f.read(4))[0]
CallCount(c) ==
    /\ calls[c].pc = "count"
    /\ \E num \in { ReadU32(calls[c].buf, calls[c].pos) } :
         calls' = [calls EXCEPT ![c] =
                      IF num.kind # "ok" THEN Raised(@, num.kind)
                      ELSE [@ EXCEPT !.pc = "tracks", !.pos = num.pos, !.left = num.val]]
    /\ UNCHANGED << codec_vars, tag_vars, table_vars, viewer_vars, objs, lists >>

\* track = self._read_track(f); self.tracks.append(track)
CallTrack(c) ==
    /\ calls[c].pc = "tracks"
    /\ calls[c].left # 0
    /\ \E t \in { read_track(calls[c].buf, calls[c].pos) } :
         IF t.kind # "ok"
         THEN /\ calls' = [calls EXCEPT ![c] = Raised(@, t.kind)]
              /\ UNCHANGED lists
         ELSE /\ calls' = [calls EXCEPT ![c].pos = t.pos, ![c].left = @ - 1]
              /\ lists' = [lists EXCEPT ![objs[calls[c].obj].tracks] = Append(@, t.val)]
    /\ UNCHANGED << codec_vars, tag_vars, table_vars, viewer_vars, objs >>

\* return {'version': str(self.version), 'tracks': self.tracks}
CallReturn(c) ==
    /\ calls[c].pc = "tracks"
    /\ calls[c].left = 0
    /\ calls' = [calls EXCEPT ![c].pc = "done", ![c].kind = "ok",
                              ![c].ret_version = Str(objs[calls[c].obj].version),
                              ![c].ret_list = objs[calls[c].obj].tracks]
    /\ UNCHANGED << codec_vars, tag_vars, table_vars, viewer_vars, objs, lists >>

NextConc ==
    \E c \in Calls :
        \/ CallOpen(c)
        \/ CallMagic(c)
        \/ CallVersion(c)
        \/ CallCount(c)
        \/ CallTrack(c)
        \/ CallReturn(c)

SpecConc == InitConc /\ [][NextConc]_vars

(* ------------------------ calls of the tag generator ------------------ *)

MaxSamples == 3

SpeedVals == { 100, 300, 700 }
HeadingVals == { 0, 90, 268 }
ElevVals == { 5000, 30000 }

\* the aircraft_type and track_type columns of a track: the same in all its rows
TrackKinds ==
    { [aircraft_type |-> << 66, 111, 101, 105, 110, 103, 32, 55, 51, 55, 45, 56, 48, 48 >>,
       track_type |-> "incoming"],
      [aircraft_type |-> << 97, 51, 52, 48 >>, track_type |-> "outgoing"] }

Row(kind, speed, heading, elevation) ==
    [speed |-> speed, heading |-> heading, elevation |-> elevation,
     aircraft_type |-> kind.aircraft_type, track_type |-> kind.track_type]

\* the rows a track of the given kind is made of
Rows(kind) ==
    { Row(kind, sp, h, el) : sp \in SpeedVals, h \in HeadingVals, el \in ElevVals }

\* the third heading of a track whose first two headings take every value
ThirdHeadings == { 3, 180 }

InitTags ==
    /\ CodecIdle
    /\ ConcIdle
    /\ TableIdle
    /\ ViewerIdle
    /\ \E n \in 1..MaxSamples, kind \in TrackKinds : track_data \in [1..n -> Rows(kind)]
    /\ tag_call = "none"
    /\ tag_out = NoTags
    /\ heading_changes = << >>

InitHeading ==
    /\ CodecIdle
    /\ ConcIdle
    /\ TableIdle
    /\ ViewerIdle
    /\ \E h1 \in 0..359, h2 \in 0..359, h3 \in ThirdHeadings :
         \E kind \in { k \in TrackKinds : k.track_type = "incoming" } :
           track_data = << Row(kind, 300, h1, 10000), Row(kind, 300, h2, 10000),
                           Row(kind, 300, h3, 10000) >>
    /\ tag_call = "none"
    /\ tag_out = NoTags
    /\ heading_changes = << >>

\* generator.calculate_speed_tags(track_data)
CalculateSpeedTags ==
    /\ tag_call = "none"
    /\ tag_call' = "calculate_speed_tags"
    /\ \E r \in { calculate_speed_tags(track_data) } :
         tag_out' = [kind |-> "ok", tags |-> r.tags, metrics |-> r.metrics]
    /\ UNCHANGED << codec_vars, conc_vars, viewer_vars, table_vars, track_data, heading_changes >>

\* generator.calculate_g_forces(track_data)
CalculateGForces ==
    /\ tag_call = "none"
    /\ tag_call' = "calculate_g_forces"
    /\ \E r \in { calculate_g_forces(track_data) } :
         /\ tag_out' = [kind |-> "ok", tags |-> r.tags, metrics |-> r.metrics]
         /\ heading_changes' = r.heading_changes
    /\ UNCHANGED << codec_vars, conc_vars, viewer_vars, table_vars, track_data >>

\* generator.calculate_linearity(track_data)
CalculateLinearity ==
    /\ tag_call = "none"
    /\ tag_call' = "calculate_linearity"
    /\ \E r \in { calculate_linearity(track_data) } :
         /\ tag_out' = [kind |-> "ok", tags |-> r.tags, metrics |-> r.metrics]
         /\ heading_changes' = r.heading_changes
    /\ UNCHANGED << codec_vars, conc_vars, viewer_vars, table_vars, track_data >>

\* generator.calculate_altitude_behavior(track_data)
CalculateAltitudeBehavior ==
    /\ tag_call = "none"
    /\ tag_call' = "calculate_altitude_behavior"
    /\ \E r \in { calculate_altitude_behavior(track_data) } :
         tag_out' = [kind |-> "ok", tags |-> r.tags, metrics |-> r.metrics]
    /\ UNCHANGED << codec_vars, conc_vars, viewer_vars, table_vars, track_data, heading_changes >>

\* generator.get_engine_configuration(aircraft_type)
GetEngineConfiguration ==
    /\ tag_call = "none"
    /\ tag_call' = "get_engine_configuration"
    /\ \E r \in { get_engine_configuration(track_data[1].aircraft_type) } :
         tag_out' = [kind |-> "ok", tags |-> r.tags, metrics |-> r.metrics]
    /\ UNCHANGED << codec_vars, conc_vars, viewer_vars, table_vars, track_data, heading_changes >>

\* generator.classify_aircraft_role(track_data)
ClassifyAircraftRole ==
    /\ tag_call = "none"
    /\ tag_call' = "classify_aircraft_role"
    /\ \E r \in { classify_aircraft_role(track_data) } :
         tag_out' = [kind |-> r.kind, tags |-> r.tags, metrics |-> << >>]
    /\ UNCHANGED << codec_vars, conc_vars, viewer_vars, table_vars, track_data, heading_changes >>

\* generator.generate_tags_for_track(track_id), track_data the rows of track_id
GenerateTagsForTrack ==
    /\ tag_call = "none"
    /\ tag_call' = "generate_tags_for_track"
    /\ \E r \in { generate_tags_for_track(track_data) } :
         tag_out' = [kind |-> r.kind, tags |-> r.tags, metrics |-> r.metrics]
    /\ UNCHANGED << codec_vars, conc_vars, viewer_vars, table_vars, track_data, heading_changes >>

NextTags ==
    \/ CalculateSpeedTags
    \/ CalculateGForces
    \/ CalculateLinearity
    \/ CalculateAltitudeBehavior
    \/ GetEngineConfiguration
    \/ ClassifyAircraftRole
    \/ GenerateTagsForTrack

SpecTags == InitTags /\ [][NextTags]_vars

NextHeading ==
    \/ CalculateGForces
    \/ CalculateLinearity

SpecHeading == InitHeading /\ [][NextHeading]_vars

(* tracks that turn at speed: loads in every band of the g-force *)
ManeuverSpeeds == { 300, 700, 1500, 2000 }
ManeuverHeadings == { 0, 90, 180, 315 }

InitManeuver ==
    /\ CodecIdle
    /\ ConcIdle
    /\ TableIdle
    /\ ViewerIdle
    /\ \E n \in 1..MaxSamples, kind \in { k \in TrackKinds : k.track_type = "incoming" } :
         track_data \in [1..n -> { Row(kind, sp, h, 10000) :
                                   sp \in ManeuverSpeeds, h \in ManeuverHeadings }]
    /\ tag_call = "none"
    /\ tag_out = NoTags
    /\ heading_changes = << >>

NextManeuver == CalculateGForces

SpecManeuver == InitManeuver /\ [][NextManeuver]_vars

(* tracks of many speeds: means in every band and on every threshold *)
BandSpeeds == { 100, 150, 200, 250, 300, 400, 500, 550, 600, 700 }

InitSpeed ==
    /\ CodecIdle
    /\ ConcIdle
    /\ TableIdle
    /\ ViewerIdle
    /\ \E n \in 1..MaxSamples, kind \in { k \in TrackKinds : k.track_type = "incoming" } :
         track_data \in [1..n -> { Row(kind, sp, 90, 10000) : sp \in BandSpeeds }]
    /\ tag_call = "none"
    /\ tag_out = NoTags
    /\ heading_changes = << >>

NextSpeed == CalculateSpeedTags

SpecSpeed == InitSpeed /\ [][NextSpeed]_vars

(* tracks of many elevations: means in every band and on every bound, mean
   rates inside, on the edge of and outside the deadband *)
BandElevations == { 9900, 10000, 10100, 25000, 40000, 45000 }

InitAltitude ==
    /\ CodecIdle
    /\ ConcIdle
    /\ TableIdle
    /\ ViewerIdle
    /\ \E n \in 1..MaxSamples, kind \in TrackKinds :
         track_data \in [1..n -> { Row(kind, 300, 90, el) : el \in BandElevations }]
    /\ tag_call = "none"
    /\ tag_out = NoTags
    /\ heading_changes = << >>

NextAltitude == CalculateAltitudeBehavior

SpecAltitude == InitAltitude /\ [][NextAltitude]_vars

(* aircraft types put together from two pieces: table models in several
   cases, fallback keywords, words that match nothing, the empty string *)
EnginePieces ==
    {
      << >>,   \* ''
      << 66, 111, 101, 105, 110, 103, 32, 55, 51, 55 >>,   \* 'Boeing 737'
      << 98, 111, 101, 105, 110, 103, 32, 55, 51, 55 >>,   \* 'boeing 737'
      << 66, 79, 69, 73, 78, 71, 32, 55, 51, 55 >>,   \* 'BOEING 737'
      << 65, 105, 114, 98, 117, 115, 32, 65, 51, 50, 48 >>,   \* 'Airbus A320'
      << 66, 111, 101, 105, 110, 103, 32, 55, 55, 55 >>,   \* 'Boeing 777'
      << 65, 105, 114, 98, 117, 115, 32, 65, 51, 56, 48 >>,   \* 'Airbus A380'
      << 66, 111, 101, 105, 110, 103, 32, 55, 52, 55 >>,   \* 'Boeing 747'
      << 67, 101, 115, 115, 110, 97, 32, 49, 55, 50 >>,   \* 'Cessna 172'
      << 70, 45, 49, 54 >>,   \* 'F-16'
      << 102, 45, 49, 54 >>,   \* 'f-16'
      << 66, 45, 53, 50 >>,   \* 'B-52'
      << 55, 51, 55 >>,   \* '737'
      << 65, 51, 50, 48 >>,   \* 'A320'
      << 55, 55, 55 >>,   \* '777'
      << 55, 56, 55 >>,   \* '787'
      << 97, 51, 51, 48 >>,   \* 'a330'
      << 55, 52, 55 >>,   \* '747'
      << 97, 51, 56, 48 >>,   \* 'a380'
      << 65, 51, 52, 48 >>,   \* 'A340'
      << 66, 111, 101, 105, 110, 103 >>,   \* 'Boeing'
      << 67, 101, 115, 115, 110, 97 >>,   \* 'Cessna'
      << 45, 56, 48, 48 >>,   \* '-800'
      << 88 >>   \* 'X'
    }

EngineSeparators == { << >>, << 32 >> }

InitEngine ==
    /\ CodecIdle
    /\ ConcIdle
    /\ TableIdle
    /\ ViewerIdle
    /\ \E a \in EnginePieces, sep \in EngineSeparators, b \in EnginePieces :
         track_data = << Row([aircraft_type |-> a \o sep \o b, track_type |-> "incoming"],
                             300, 90, 10000) >>
    /\ tag_call = "none"
    /\ tag_out = NoTags
    /\ heading_changes = << >>

NextEngine == GetEngineConfiguration

SpecEngine == InitEngine /\ [][NextEngine]_vars

(* tracks with a timestamp column: evenly spaced, unevenly spaced, repeated
   and decreasing timestamps, in seconds from the first one possible *)
TimeVals == { 0, 30, 60 }

TimedRow(kind, speed, heading, elevation, timestamp) ==
    [speed |-> speed, heading |-> heading, elevation |-> elevation,
     aircraft_type |-> kind.aircraft_type, track_type |-> kind.track_type,
     timestamp |-> timestamp]

InitTimes ==
    /\ CodecIdle
    /\ ConcIdle
    /\ TableIdle
    /\ ViewerIdle
    /\ \E n \in 1..MaxSamples, kind \in { k \in TrackKinds : k.track_type = "incoming" } :
         track_data \in [1..n -> { TimedRow(kind, 2000, h, 10000, t) :
                                     h \in { 0, 90 }, t \in TimeVals }]
    /\ tag_call = "none"
    /\ tag_out = NoTags
    /\ heading_changes = << >>

NextTimes ==
    \/ CalculateGForces
    \/ GenerateTagsForTrack

SpecTimes == InitTimes /\ [][NextTimes]_vars

(* tracks of the headings 90, 92 and 268 at 300 knots *)
ScenarioHeadings == { 90, 92, 268 }

InitScenario ==
    /\ CodecIdle
    /\ ConcIdle
    /\ TableIdle
    /\ ViewerIdle
    /\ \E n \in 1..MaxSamples, kind \in { k \in TrackKinds : k.track_type = "incoming" } :
         track_data \in [1..n -> { Row(kind, 300, h, 10000) : h \in ScenarioHeadings }]
    /\ tag_call = "none"
    /\ tag_out = NoTags
    /\ heading_changes = << >>

NextScenario ==
    \/ CalculateGForces
    \/ CalculateLinearity
    \/ GenerateTagsForTrack

SpecScenario == InitScenario /\ [][NextScenario]_vars

\* speeds, turns and heights on both sides of every limit of the role rules
RoleSpeeds == { 0, 300, 599, 2000 }

RoleHeadings == { 0, 180 }

RoleElevations == { 5000, 20000 }

InitRole ==
    /\ CodecIdle
    /\ ConcIdle
    /\ TableIdle
    /\ ViewerIdle
    /\ \E n \in 1..MaxSamples, el \in RoleElevations,
          kind \in { k \in TrackKinds : k.track_type = "incoming" } :
         track_data \in [1..n -> { Row(kind, sp, h, el) :
                                     sp \in RoleSpeeds, h \in RoleHeadings }]
    /\ tag_call = "none"
    /\ tag_out = NoTags
    /\ heading_changes = << >>

NextRole == ClassifyAircraftRole \/ GenerateTagsForTrack

SpecRole == InitRole /\ [][NextRole]_vars

(* ------------------------------ the table ------------------------------ *)

(* the rows of a CSV file of two tracks, in any arrangement *)
MaxRows == 3

TableIds == { 1, 2 }

TableSpeeds == { 100, 300 }

TableHeadings == { 0 }

\* a row of the table: the aircraft_type and track_type go with the track
TableRow(track_id, speed, heading) ==
    WithColumn(Row(IF track_id = 1
                   THEN CHOOSE k \in TrackKinds : k.track_type = "incoming"
                   ELSE CHOOSE k \in TrackKinds : k.track_type = "outgoing",
                   speed, heading, 5000),
               "track_id", track_id)

\* TrackTagGenerator(): no table, no tags
InitTable ==
    /\ CodecIdle
    /\ ConcIdle
    /\ TagIdle
    /\ TableIdle
    /\ ViewerIdle

\* a call that returned, with nothing of it kept
Returned == [kind |-> "ok", tags |-> << >>, metrics |-> << >>]

\* generator.load_csv(csv_file), the file holding at least one row
LoadCsv ==
    /\ tag_call' = "load_csv"
    /\ tag_out' = Returned
    /\ \E n \in 1..MaxRows :
         df' \in [1..n -> { TableRow(id, sp, h) :
                              id \in TableIds, sp \in TableSpeeds, h \in TableHeadings }]
    /\ UNCHANGED << codec_vars, conc_vars, viewer_vars, track_data, heading_changes, tags_generated >>

\* generator.generate_all_tags()
GenerateAllTags ==
    /\ tag_call' = "generate_all_tags"
    /\ IF df = << >>
       THEN /\ tag_out' = [kind |-> "ValueError", tags |-> << >>, metrics |-> << >>]
            /\ UNCHANGED table_vars
       ELSE \E r \in { generate_all_tags(df, tags_generated) } :
              /\ tag_out' = [kind |-> r.kind, tags |-> << >>, metrics |-> << >>]
              /\ df' = r.df
              /\ tags_generated' = r.tags_generated
    /\ UNCHANGED << codec_vars, conc_vars, viewer_vars, track_data, heading_changes >>

\* generator.save_tagged_csv(output_file): metrics holds the file it wrote
SaveTaggedCsv ==
    /\ tag_call' = "save_tagged_csv"
    /\ \E r \in { save_tagged_csv(df, tags_generated) } :
         tag_out' = [kind |-> r.kind, tags |-> << >>, metrics |-> r.written]
    /\ UNCHANGED << codec_vars, conc_vars, viewer_vars, table_vars, track_data, heading_changes >>

\* generator.get_tag_statistics(): metrics holds what it returned
GetTagStatistics ==
    /\ tag_call' = "get_tag_statistics"
    /\ \E r \in { get_tag_statistics(df, tags_generated) } :
         tag_out' = [kind |-> r.kind, tags |-> << >>, metrics |-> r.returned]
    /\ UNCHANGED << codec_vars, conc_vars, viewer_vars, table_vars, track_data, heading_changes >>

NextTable ==
    \/ LoadCsv
    \/ GenerateAllTags
    \/ SaveTaggedCsv
    \/ GetTagStatistics

SpecTable == InitTable /\ [][NextTable]_vars

(* ------------------------------ the viewer ----------------------------- *)
(* A TrackViewerGUI with its TrackExtractor and its TrackTagGenerator.  The   *)
(* binary files it is given hold tracks of whole-number samples; a CSV file   *)
(* is held as its rows, a number written by the csv module and parsed by      *)
(* pandas being the whole number it was.                                      *)

\* float(n) back to n, for the doubles of whole numbers below 2^21
IntOf(x) ==
    IF x.e = 0 THEN 0
    ELSE The({ IF x.s = 1 THEN 0 - a ELSE a :
               a \in { Pow2(x.e - 1023)
                         + ((x.f[5] + (256 * x.f[6]) + (65536 * x.f[7]))
                              \div Pow2(20 - (x.e - 1023))) } })

\* the track_type column as the tag generator reads it
TypeName(track_type) ==
    CASE track_type = << 105, 110, 99, 111, 109, 105, 110, 103 >> -> "incoming"
      [] track_type = << 111, 117, 116, 103, 111, 105, 110, 103 >> -> "outgoing"

\* the row export_to_csv writes for a position of a track, a time standing
\* for the isoformat text of its datetime
CsvRow(track, pos) ==
    [track_id |-> track.track_id, track_name |-> track.track_name,
     track_type |-> TypeName(track.track_type), aircraft_type |-> track.aircraft_type,
     track_start_time |-> IntOf(track.start_time),
     track_end_time |-> IntOf(track.end_time), lifetime |-> IntOf(track.lifetime),
     timestamp |-> IntOf(pos.timestamp), range |-> IntOf(pos.range),
     azimuth |-> IntOf(pos.azimuth), elevation |-> IntOf(pos.elevation),
     speed |-> IntOf(pos.speed), heading |-> IntOf(pos.heading)]

\* export_to_csv: a row for each position of each track, in order
RECURSIVE export_to_csv(_)
export_to_csv(tracks) ==
    IF tracks = << >> THEN << >>
    ELSE [j \in 1..Len(Head(tracks).positions) |->
             CsvRow(Head(tracks), Head(tracks).positions[j])]
         \o export_to_csv(Tail(tracks))

\* export_to_json: the data it dumps
export_to_json(version, tracks) == [version |-> Str(version), tracks |-> tracks]

\* the tracks of the files: an incoming one of two samples, an outgoing one of one
ViewerTrack(id) ==
    [track_id      |-> id,
     track_name    |-> << 84, 48 + id >>,
     track_type    |-> IF id = 1 THEN << 105, 110, 99, 111, 109, 105, 110, 103 >>
                       ELSE << 111, 117, 116, 103, 111, 105, 110, 103 >>,
     aircraft_type |-> IF id = 1 THEN << 66, 111, 101, 105, 110, 103, 32, 55, 51, 55, 45, 56, 48, 48 >>
                       ELSE << 97, 51, 52, 48 >>,
     start_time    |-> DoubleOf(600 * id),
     end_time      |-> DoubleOf((600 * id) + 1800),
     lifetime      |-> DoubleOf(1800),
     positions     |-> [j \in 1..(3 - id) |->
                           [timestamp |-> DoubleOf((600 * id) + (30 * j)),
                            range     |-> DoubleOf(150 - j),
                            azimuth   |-> DoubleOf(90 + j),
                            elevation |-> DoubleOf(5000),
                            speed     |-> DoubleOf(300),
                            heading   |-> DoubleOf(90 * j)]]]

\* the track lists of the files: two tracks, one track, none
ViewerFiles ==
    { << ViewerTrack(1), ViewerTrack(2) >>, << ViewerTrack(2) >>, << >> }

\* where a file is cut: in the magic, the version, the count, the first track
ViewerCuts == { 2, 6, 10, 14 }

\* the binary files the viewer is given: whole ones, the file of two tracks
\* cut short in its header, in its first track and in its last byte
ViewerBufs ==
    { save_to_binary(ts) : ts \in ViewerFiles }
    \cup { SubSeq(save_to_binary(<< ViewerTrack(1), ViewerTrack(2) >>), 1, k) :
             k \in ViewerCuts }
    \cup { SubSeq(b, 1, Len(b) - 1) :
             b \in { save_to_binary(<< ViewerTrack(1), ViewerTrack(2) >>) } }

\* TrackViewerGUI(root)
InitViewer ==
    /\ CodecIdle
    /\ ConcIdle
    /\ TagIdle
    /\ TableIdle
    /\ ViewerIdle

\* how a handler of the viewer ended, and the file it wrote
Handled(handler, kind, written) ==
    [handler |-> handler, kind |-> kind, written |-> written]

\* _load_file(file_path), the file holding buf
LoadFile(buf) ==
    /\ disk' = buf
    /\ \E r \in { read_binary(buf, ext_version) } :
         /\ ext_tracks' = r.tracks
         /\ ext_version' = r.version
         /\ last' = [kind |-> r.kind, pos |-> r.pos,
                     ret_version |-> r.ret_version, ret_tracks |-> r.ret_tracks]
         /\ view_tracks' = IF r.kind = "ok" THEN r.tracks ELSE view_tracks
         /\ view_last' = Handled("_load_file", IF r.kind = "ok" THEN "ok" ELSE "error", << >>)
    /\ UNCHANGED << gen_tracks, file_version, tamper, phase >>
    /\ UNCHANGED << conc_vars, tag_vars, table_vars >>
    /\ UNCHANGED << selected_track_index, csv_file_path, csv_files >>

\* _on_track_select(event), the user having picked line i of the listbox
SelectTrack(i) ==
    /\ i < Len(view_tracks)
    /\ selected_track_index' = << i >>
    /\ view_last' = Handled("_on_track_select", "ok", << >>)
    /\ UNCHANGED << codec_vars, conc_vars, tag_vars, table_vars >>
    /\ UNCHANGED << view_tracks, csv_file_path, csv_files >>

\* _export_json(), the user having picked a file name
ExportJson ==
    /\ view_last' = IF view_tracks = << >>
                    THEN Handled("_export_json", "warning", << >>)
                    ELSE Handled("_export_json", "ok",
                                 << export_to_json(ext_version, ext_tracks) >>)
    /\ UNCHANGED << codec_vars, conc_vars, tag_vars, table_vars >>
    /\ UNCHANGED << view_tracks, selected_track_index, csv_file_path, csv_files >>

\* _export_csv(), the user having picked the file name path
ExportCsv(path) ==
    /\ IF view_tracks = << >>
       THEN /\ view_last' = Handled("_export_csv", "warning", << >>)
            /\ UNCHANGED << csv_file_path, csv_files >>
       ELSE /\ csv_files' = [csv_files EXCEPT ![path] = << export_to_csv(ext_tracks) >>]
            /\ csv_file_path' = << path >>
            /\ view_last' = Handled("_export_csv", "ok", << export_to_csv(ext_tracks) >>)
    /\ UNCHANGED << codec_vars, conc_vars, tag_vars, table_vars >>
    /\ UNCHANGED << view_tracks, selected_track_index >>

\* the CSV files after the if of _generate_ai_tags: with no path, or no file
\* at the path, the tracks of the extractor are exported to the default path
CsvAfterCheck(path, files, tracks) ==
    IF path = << >> \/ files[path[1]] = << >>
    THEN [path |-> << "airborne_tracks_extracted.csv" >>,
          files |-> [files EXCEPT !["airborne_tracks_extracted.csv"] =
                                      << export_to_csv(tracks) >>]]
    ELSE [path |-> path, files |-> files]

\* the try block of _generate_ai_tags on the table of the CSV file: load_csv,
\* generate_all_tags, save_tagged_csv, get_tag_statistics
TagTable(table, flag) ==
    The({ IF g.kind # "ok"
          THEN [kind |-> "error", df |-> table, tags_generated |-> flag,
                call |-> "generate_all_tags",
                out |-> [kind |-> g.kind, tags |-> << >>, metrics |-> << >>],
                written |-> << >>]
          ELSE The({ [kind |-> IF st.kind = "ok" THEN "ok" ELSE "error",
                      df |-> g.df, tags_generated |-> TRUE,
                      call |-> "get_tag_statistics",
                      out |-> [kind |-> st.kind, tags |-> << >>, metrics |-> st.returned],
                      written |-> save_tagged_csv(g.df, TRUE).written] :
                     st \in { get_tag_statistics(g.df, TRUE) } }) :
          g \in { generate_all_tags(table, flag) } })

\* _generate_ai_tags()
GenerateAiTags ==
    /\ IF view_tracks = << >>
       THEN /\ view_last' = Handled("_generate_ai_tags", "warning", << >>)
            /\ UNCHANGED << csv_file_path, csv_files, tag_call, tag_out, table_vars >>
       ELSE \E c \in { CsvAfterCheck(csv_file_path, csv_files, ext_tracks) } :
            \E r \in { TagTable(c.files[c.path[1]][1], tags_generated) } :
              /\ csv_file_path' = c.path
              /\ csv_files' = c.files
              /\ df' = r.df
              /\ tags_generated' = r.tags_generated
              /\ tag_call' = r.call
              /\ tag_out' = r.out
              /\ view_last' = Handled("_generate_ai_tags", r.kind, r.written)
    /\ UNCHANGED << codec_vars, conc_vars, track_data, heading_changes >>
    /\ UNCHANGED << view_tracks, selected_track_index >>

NextViewer ==
    \/ \E buf \in ViewerBufs : LoadFile(buf)
    \/ \E i \in 0..(MaxTracks - 1) : SelectTrack(i)
    \/ ExportJson
    \/ \E path \in CsvPaths : ExportCsv(path)
    \/ GenerateAiTags

SpecViewer == InitViewer /\ [][NextViewer]_vars

(* ======================= claims: the binary codec ===================== *)

\* the file is the one the generator wrote, and read_binary has read it
ReadOfSaved == phase = "read" /\ tamper.op = "none"

C2_ReencodeAnyBuffer ==
    (phase = "read" /\ last.kind = "ok") => save_to_binary(last.ret_tracks) = disk

\* C2 (amended): a buffer that read_binary decodes, whose version field is 1 and
\* which ends where its last track ends, is byte for byte what save_to_binary
\* writes for the decoded tracks.
C2_Reencode ==
    (phase = "read" /\ last.kind = "ok" /\ ext_version = << VERSION >>
                    /\ last.pos = Len(disk))
        => save_to_binary(last.ret_tracks) = disk

\* an overwritten file that still decodes, to other tracks than the generator's
C2_Witness ==
    /\ phase = "read" /\ last.kind = "ok"
    /\ ext_version = << VERSION >> /\ last.pos = Len(disk)
    /\ tamper.op = "setbyte"
    /\ Len(last.ret_tracks) = 2
    /\ last.ret_tracks # gen_tracks

\* C3: the first k bytes of a valid file, k less than its length, fail to decode
\* with the truncated-data error (struct.error), whatever k is.
C3_TruncationKind ==
    (phase = "read" /\ tamper.op = "truncate") => last.kind = "struct.error"

\* the first 4 bytes are there and are not b'ATRK'
WrongMagic == Len(disk) >= 4 /\ SubSeq(disk, 1, 4) # MAGIC_NUMBER

\* C4: a buffer whose first 4 bytes are not b'ATRK' fails with the format error
\* (ValueError), with the stream 4 bytes in, no version stored and no track
\* decoded.
C4_MagicRejection ==
    (phase = "read" /\ WrongMagic) =>
        /\ last.kind = "ValueError"
        /\ last.pos = 4
        /\ ext_version = << >>
        /\ get_tracks = << >>
        /\ last.ret_tracks = << >>

\* a file of two valid tracks, one byte of its magic overwritten, was read
C4_Witness ==
    /\ phase = "read" /\ WrongMagic
    /\ tamper.op = "setbyte" /\ tamper.at <= 4
    /\ Len(gen_tracks) = 2

\* C5: a failing decode reports one of three kinds, by its cause: wrong magic
\* reports ValueError, a buffer that ends early reports struct.error, and no
\* other cause reports either of these; truncation is never reported as an
\* invalid encoding.
C5_KindByCause ==
    phase = "read" =>
        /\ last.kind \in { "ok", "ValueError", "struct.error", "UnicodeDecodeError" }
        /\ WrongMagic => last.kind = "ValueError"
        /\ tamper.op = "truncate" => last.kind = "struct.error"
        /\ last.kind = "ValueError" => WrongMagic
        /\ last.kind = "UnicodeDecodeError" => tamper.op # "truncate"

\* C6: after a read_binary that failed, get_tracks() holds no track of the file.
C6_NoPartialResult ==
    (phase = "read" /\ last.kind # "ok") => get_tracks = << >>

(* ===================== claims: concurrent decoding ==================== *)

\* what read_binary returns for the file of call c when nothing else runs
OwnFile(c) == read_binary(calls[c].buf, << >>)

\* C7: of two read_binary calls on two different files, interleaved between
\* their steps, on one TrackExtractor or on two, each returns the version and
\* the tracks of its own file.
C7_ConcurrentReads ==
    \A c \in DOMAIN calls :
        calls[c].pc = "done" =>
            /\ calls[c].ret_version = OwnFile(c).ret_version
            /\ lists[calls[c].ret_list] = OwnFile(c).ret_tracks

(* ======================== claims: the tag generator =================== *)

\* C8: generate_tags_for_track returns for every track, however short, and for
\* a track of fewer than 3 samples the g-force and the heading deviation are
\* zero with no maneuver or linearity tag, for one of fewer than 2 samples the
\* elevation change is zero.
C8_Total ==
    tag_call = "generate_tags_for_track" =>
        /\ tag_out.kind = "ok"
        /\ Len(track_data) < 3 =>
              /\ tag_out.metrics.max_g = GZero
              /\ tag_out.metrics.heading_std = Rat(0, 1)
        /\ Len(track_data) < 2 => tag_out.metrics.elevation_change = 0

\* calculate_g_forces or calculate_linearity has computed the heading changes
DeltasComputed ==
    /\ tag_call \in { "calculate_g_forces", "calculate_linearity" }
    /\ Len(track_data) >= 3

\* heading i + 1 minus heading i of the track
RawDelta(i) == track_data[i + 1].heading - track_data[i].heading

\* C9 (as stated): every normalized heading change d has -180 < d <= 180, and a
\* half turn is +180.
C9_DeltaHalfOpen ==
    DeltasComputed =>
        \A i \in 1..Len(heading_changes) :
            /\ -180 < heading_changes[i] /\ heading_changes[i] <= 180
            /\ Abs(RawDelta(i)) = 180 => heading_changes[i] = 180

\* C9 (amended): every normalized heading change d of headings in [0, 360) has
\* -180 <= d <= 180; a half turn h2 - h1 = 180 is +180 and a half turn
\* h2 - h1 = -180 is -180.
C9_DeltaClosed ==
    DeltasComputed =>
        \A i \in 1..Len(heading_changes) :
            /\ -180 <= heading_changes[i] /\ heading_changes[i] <= 180
            /\ RawDelta(i) = 180 => heading_changes[i] = 180
            /\ RawDelta(i) = -180 => heading_changes[i] = -180

\* calculate_g_forces saw a half turn from the larger heading to the smaller one
C9_Witness ==
    /\ DeltasComputed
    /\ tag_call = "calculate_g_forces"
    /\ RawDelta(1) = -180
    /\ heading_changes[1] = -180

\* C10: every normalized heading change is congruent to h2 - h1 modulo 360 and
\* at most 180 in absolute value; the headings 359, 1, 3 give +2, +2; the
\* g-force and the linearity computation use the same changes.
C10_Wraparound ==
    DeltasComputed =>
        /\ \A i \in 1..Len(heading_changes) :
              /\ (heading_changes[i] - RawDelta(i)) % 360 = 0
              /\ Abs(heading_changes[i]) <= 180
        /\ Len(heading_changes) = Len(track_data) - 1
        /\ Column(track_data, "heading") = << 359, 1, 3 >> => heading_changes = << 2, 2 >>
        /\ heading_changes = g_heading_changes(Column(track_data, "heading"))
        /\ heading_changes = lin_heading_changes(Column(track_data, "heading"))

\* calculate_linearity was given the headings 359, 1, 3
C10_Witness ==
    /\ DeltasComputed
    /\ tag_call = "calculate_linearity"
    /\ Column(track_data, "heading") = << 359, 1, 3 >>
    /\ heading_changes = << 2, 2 >>

\* calculate_g_forces has returned for a track of 3 samples or more
GForcesComputed == tag_call = "calculate_g_forces" /\ Len(track_data) >= 3

\* every normalized heading change is at most 0.1 degrees in absolute value
BelowNoiseFloor == \A i \in 1..Len(heading_changes) : 10 * Abs(heading_changes[i]) <= 1

\* C11 (as stated): a track of 3 samples or more whose heading changes are all
\* within the 0.1 degree floor has max_g = 0 and avg_g = 0 and gets the
\* minimal_maneuvering tag from the g-force step.
C11_NoiseFloorMinimalTag ==
    (GForcesComputed /\ BelowNoiseFloor) =>
        /\ tag_out.metrics.max_g = GZero
        /\ tag_out.metrics.avg_g = GZero
        /\ \E i \in 1..Len(tag_out.tags) : tag_out.tags[i] = "minimal_maneuvering"

\* C11 (amended): a track of 3 samples or more whose heading changes are all
\* within the 0.1 degree floor has no g-force sample, max_g = 0 and avg_g = 0,
\* and the g-force step returns no tag at all.
C11_NoiseFloor ==
    (GForcesComputed /\ BelowNoiseFloor) =>
        /\ tag_out.kind = "ok"
        /\ tag_out.metrics.max_g = GZero
        /\ tag_out.metrics.avg_g = GZero
        /\ tag_out.tags = << >>

\* calculate_g_forces returned for three samples of one heading at 2000 knots
C11_Witness ==
    /\ GForcesComputed
    /\ Len(track_data) = 3
    /\ \A i \in 1..Len(track_data) :
          track_data[i].heading = 90 /\ track_data[i].speed = 2000
    /\ heading_changes = << 0, 0 >>
    /\ tag_out.tags = << >>

\* the loads of the heading changes above the floor
LoadsOf == { track_data[i].speed * Abs(heading_changes[i]) :
             i \in { j \in 1..Len(heading_changes) : 10 * Abs(heading_changes[j]) > 1 } }

TagsIn(tags, band) == { i \in 1..Len(tags) : tags[i] \in band }

HasTag(tags, t) == \E i \in 1..Len(tags) : tags[i] = t

SpeedBandTags ==
    { "very_slow_moving", "slow_moving", "moderate_speed", "fast_moving",
      "very_fast_moving" }

\* the sum of the speeds of the track
SpeedSum == SumTo(Column(track_data, "speed"), Len(track_data))

ChangeSpread ==
    (Len(heading_changes) * SumSqTo(heading_changes, Len(heading_changes)))
    - (SumTo(heading_changes, Len(heading_changes))
       * SumTo(heading_changes, Len(heading_changes)))

\* C14: for a track of 3 samples or more whose heading changes have standard
\* deviation s: s < 5 gives linear_path and straight_flight, 5 <= s < 15
\* mostly_linear, s >= 15 curved_path; serpentine_pattern is there exactly when
\* s > 30, never without curved_path; exactly one of linear_path,
\* mostly_linear, curved_path is there.
C14_Linearity ==
    (tag_call = "calculate_linearity" /\ Len(track_data) >= 3) =>
        \A nn \in { Len(heading_changes) * Len(heading_changes) } :
            /\ Cardinality(TagsIn(tag_out.tags,
                                  { "linear_path", "mostly_linear", "curved_path" })) = 1
            /\ HasTag(tag_out.tags, "linear_path") <=> (ChangeSpread < 25 * nn)
            /\ HasTag(tag_out.tags, "straight_flight") <=> (ChangeSpread < 25 * nn)
            /\ HasTag(tag_out.tags, "mostly_linear")
                  <=> (25 * nn <= ChangeSpread /\ ChangeSpread < 225 * nn)
            /\ HasTag(tag_out.tags, "curved_path") <=> (225 * nn <= ChangeSpread)
            /\ HasTag(tag_out.tags, "serpentine_pattern") <=> (ChangeSpread > 900 * nn)
            /\ HasTag(tag_out.tags, "serpentine_pattern")
                  => HasTag(tag_out.tags, "curved_path")

\* the headings 3, 8, 3: changes +5, -5, of deviation exactly 5, are mostly_linear
C14_Witness ==
    /\ tag_call = "calculate_linearity"
    /\ heading_changes = << 5, -5 >>
    /\ tag_out.metrics.heading_std = Rat(100, 4)
    /\ tag_out.tags = << "mostly_linear" >>

AltitudeBandTags ==
    { "high_altitude", "cruise_altitude", "medium_altitude", "low_altitude" }

\* the sum of the elevations of the track
ElevationSum == SumTo(Column(track_data, "elevation"), Len(track_data))

\* the sum of the consecutive elevation changes: last elevation minus first
ElevationRise == track_data[Len(track_data)].elevation - track_data[1].elevation

\* one altitude-band tag, by the mean elevation with exclusive lower bounds
AltitudeBandByMean ==
    \A n \in { Len(track_data) } :
        /\ Cardinality(TagsIn(tag_out.tags, AltitudeBandTags)) = 1
        /\ HasTag(tag_out.tags, "high_altitude") <=> (ElevationSum > 40000 * n)
        /\ HasTag(tag_out.tags, "cruise_altitude")
              <=> (25000 * n < ElevationSum /\ ElevationSum <= 40000 * n)
        /\ HasTag(tag_out.tags, "medium_altitude")
              <=> (10000 * n < ElevationSum /\ ElevationSum <= 25000 * n)
        /\ HasTag(tag_out.tags, "low_altitude") <=> (ElevationSum <= 10000 * n)

\* climbing and descending by the mean consecutive change, none in the deadband
ClimbByMeanRate ==
    \A m \in { Len(track_data) - 1 } :
        /\ HasTag(tag_out.tags, "climbing") <=> (m > 0 /\ ElevationRise > 100 * m)
        /\ HasTag(tag_out.tags, "descending") <=> (m > 0 /\ ElevationRise < (-100) * m)
        /\ ~(HasTag(tag_out.tags, "climbing") /\ HasTag(tag_out.tags, "descending"))

\* C15 as stated: every track of at least one sample gets exactly one
\* altitude-band tag by its mean altitude (exclusive lower bounds 40000, 25000,
\* 10000), and climbing and descending are never both there and both absent
\* for a mean change within [-100, 100].
C15_AltitudeBandOneSample ==
    (tag_call = "calculate_altitude_behavior" /\ Len(track_data) >= 1) =>
        AltitudeBandByMean /\ ClimbByMeanRate

\* C15: every track of at least two samples gets exactly one altitude-band tag
\* by its mean altitude (exclusive lower bounds 40000, 25000, 10000), and
\* climbing and descending are never both there and both absent for a mean
\* change within [-100, 100]; a track of one sample gets no altitude tag at all.
C15_AltitudeBand ==
    tag_call = "calculate_altitude_behavior" =>
        /\ tag_out.kind = "ok"
        /\ Len(track_data) >= 2 => AltitudeBandByMean /\ ClimbByMeanRate
        /\ Len(track_data) = 1 =>
              /\ tag_out.tags = << >>
              /\ tag_out.metrics = [elevation_change |-> 0]

\* elevations 10100, 10000, 9900: mean exactly 10000 and mean change exactly
\* -100 give low_altitude and neither climbing nor descending
C15_Witness ==
    /\ tag_call = "calculate_altitude_behavior"
    /\ Column(track_data, "elevation") = << 10100, 10000, 9900 >>
    /\ tag_out.tags = << "low_altitude", "level_flight" >>

\* the table entries whose model name is in the aircraft type, whatever the case
TableMatches(aircraft_type) ==
    { i \in 1..Len(ENGINE_CONFIG) :
        Contains(Lower(ENGINE_CONFIG[i].model), Lower(aircraft_type)) }

\* the fallback keywords: '737', 'a320', '777', '787', 'a330'
TwinKeywords ==
    { << 55, 51, 55 >>, << 97, 51, 50, 48 >>, << 55, 55, 55 >>, << 55, 56, 55 >>,
      << 97, 51, 51, 48 >> }

\* the fallback keywords: '747', 'a380', 'a340'
FourKeywords == { << 55, 52, 55 >>, << 97, 51, 56, 48 >>, << 97, 51, 52, 48 >> }

KeywordIn(keywords, aircraft_type) ==
    \E x \in keywords : Contains(x, Lower(aircraft_type))

\* 'Boeing 737-800' and 'boeing 737-800'
Boeing737_800 ==
    { << 66, 111, 101, 105, 110, 103, 32, 55, 51, 55, 45, 56, 48, 48 >>,
      << 98, 111, 101, 105, 110, 103, 32, 55, 51, 55, 45, 56, 48, 48 >> }

\* C16: the lookup gives the configuration of the first table entry, in
\* declaration order, whose model name is a case-insensitive substring of the
\* aircraft type; the fallback keywords count only when no table entry
\* matches; 'Boeing 737-800' and 'boeing 737-800' give twin_engine.
C16_EnginePrecedence ==
    tag_call = "get_engine_configuration" =>
        \A at \in { track_data[1].aircraft_type } :
        \A m \in { TableMatches(at) } :
            /\ \A i \in m :
                  (\A j \in m : i <= j) =>
                      /\ tag_out.tags = << ENGINE_CONFIG[i].config >>
                      /\ tag_out.metrics = [engine_config |-> ENGINE_CONFIG[i].config]
            /\ (m = {} /\ KeywordIn(TwinKeywords, at)) =>
                  tag_out.tags = << "twin_engine" >>
            /\ (m = {} /\ ~KeywordIn(TwinKeywords, at) /\ KeywordIn(FourKeywords, at)) =>
                  tag_out.tags = << "four_engine" >>
            /\ at \in Boeing737_800 => tag_out.tags = << "twin_engine" >>

\* 'B-52 Boeing 747' holds the eighth and the fifth table model: the fifth wins
C16_Witness ==
    /\ tag_call = "get_engine_configuration"
    /\ track_data[1].aircraft_type
          = << 66, 45, 53, 50, 32, 66, 111, 101, 105, 110, 103, 32, 55, 52, 55 >>
    /\ TableMatches(track_data[1].aircraft_type) = { 5, 8 }
    /\ tag_out.tags = << "four_engine" >>

EngineTags ==
    { "twin_engine", "four_engine", "single_engine", "eight_engine",
      "unknown_engine_config" }

\* C17: for every aircraft type string, the empty one included, the lookup
\* returns exactly one engine tag and does not fail; with no table entry and
\* no fallback keyword in the string the tag is unknown_engine_config.
C17_EngineTotal ==
    tag_call = "get_engine_configuration" =>
        \A at \in { track_data[1].aircraft_type } :
            /\ tag_out.kind = "ok"
            /\ Len(tag_out.tags) = 1
            /\ tag_out.tags[1] \in EngineTags
            /\ (/\ TableMatches(at) = {}
                /\ ~KeywordIn(TwinKeywords, at)
                /\ ~KeywordIn(FourKeywords, at))
                  => tag_out.tags = << "unknown_engine_config" >>

\* the empty aircraft type gives unknown_engine_config
C17_Witness ==
    /\ tag_call = "get_engine_configuration"
    /\ track_data[1].aircraft_type = << >>
    /\ tag_out.tags = << "unknown_engine_config" >>
    /\ tag_out.metrics = [engine_config |-> "unknown"]

\* the four role rules, by the metrics of the track
RoleRules ==
    \A n \in { Len(track_data) } :
    \A max_g \in { calculate_g_forces(track_data).metrics.max_g } :
    \A heading_std \in { calculate_linearity(track_data).metrics.heading_std } :
        /\ HasTag(tag_out.tags, "military_fighter_profile")
              <=> (GAbove(max_g, 5) /\ SpeedSum > 400 * n)
        /\ HasTag(tag_out.tags, "tactical_maneuvering")
              <=> (/\ ~HasTag(tag_out.tags, "military_fighter_profile")
                   /\ GAbove(max_g, 3)
                   /\ StdGreater(heading_std, 20))
        /\ HasTag(tag_out.tags, "commercial_airliner_profile")
              <=> (/\ StdLess(heading_std, 10)
                   /\ 250 * n < SpeedSum
                   /\ SpeedSum < 500 * n
                   /\ GBelow(max_g, 2))
        /\ HasTag(tag_out.tags, "general_aviation_profile")
              <=> (SpeedSum < 200 * n /\ ElevationSum < 15000 * n)

\* C18: military_fighter_profile is there iff max-g > 5 and mean speed > 400,
\* tactical_maneuvering iff military_fighter_profile is not and max-g > 3 and
\* heading deviation > 20, commercial_airliner_profile iff heading deviation
\* < 10 and 250 < mean speed < 500 and max-g < 2, general_aviation_profile iff
\* mean speed < 200 and mean altitude < 15000.
C18_RoleClassification ==
    tag_call = "classify_aircraft_role" => RoleRules

\* the track with other timestamps, all else the same in the same row order
Retimed(track, ts) ==
    [i \in 1..Len(track) |-> [track[i] EXCEPT !.timestamp = ts[i]]]

\* C19: two tracks that agree, row by row, on speed, heading, elevation,
\* aircraft_type and track_type and differ only in their timestamps (any
\* spacing, decreasing ones too) get the same tag list and the same g-force
\* metrics: whatever timestamps the rows are given instead of their own,
\* generate_tags_for_track and calculate_g_forces return what they returned.
C19_TimestampIndependence ==
    /\ tag_call = "generate_tags_for_track" =>
          \A ts \in [1..Len(track_data) -> TimeVals] :
          \A r \in { generate_tags_for_track(Retimed(track_data, ts)) } :
              /\ r.kind = tag_out.kind
              /\ r.tags = tag_out.tags
              /\ r.metrics = tag_out.metrics
    /\ tag_call = "calculate_g_forces" =>
          \A ts \in [1..Len(track_data) -> TimeVals] :
          \A r \in { calculate_g_forces(Retimed(track_data, ts)) } :
              /\ r.tags = tag_out.tags
              /\ r.metrics = tag_out.metrics

\* timestamps 60, 0, 30 on a track that turns by 90 degrees and back: the
\* g-force is that of 90 degrees in 30 seconds
C19_Witness ==
    /\ tag_call = "generate_tags_for_track"
    /\ Column(track_data, "timestamp") = << 60, 0, 30 >>
    /\ Column(track_data, "heading") = << 0, 90, 0 >>
    /\ tag_out.metrics.max_g = << 180000 >>
    /\ HasTag(tag_out.tags, GTagOf(<< 180000 >>))

\* the tags of the six steps in the order of the claim, then the track type tag
TagsInOrder ==
    calculate_speed_tags(track_data).tags
    \o calculate_g_forces(track_data).tags
    \o calculate_linearity(track_data).tags
    \o calculate_altitude_behavior(track_data).tags
    \o get_engine_configuration(track_data[1].aircraft_type).tags
    \o classify_aircraft_role(track_data).tags
    \o << TrackTypeTag(track_data[1].track_type) >>

\* C22: for every track of at least one row the tag list is the speed tags,
\* the g-force tags, the linearity tags, the altitude tags, the engine tag, the
\* role tags and the '<track_type>_track' tag, in this order; its last element
\* is '<track_type>_track' and it holds exactly one engine tag.
C22_TagListComposition ==
    (tag_call = "generate_tags_for_track" /\ Len(track_data) >= 1) =>
        /\ tag_out.tags = TagsInOrder
        /\ tag_out.tags[Len(tag_out.tags)] = TrackTypeTag(track_data[1].track_type)
        /\ Cardinality(TagsIn(tag_out.tags, EngineTags)) = 1

\* the track of the scenario: 3 samples, headings 90, 92, 268, speeds 300
ScenarioTrack ==
    /\ Column(track_data, "heading") = << 90, 92, 268 >>
    /\ Column(track_data, "speed") = << 300, 300, 300 >>

\* sqrt(1 + g_force ** 2) > 1 for a g-force held as its load: a load of 1 is
\* a g_force of 3.05e-5, whose square is well above the spacing of the doubles
\* at 1; the load 52800 of the scenario is a load factor of 1.90
LoadFactorAboveOne(g) == Len(g) = 1 /\ g[1] > 0

\* C23 as stated: for the headings 90, 92, 268 at 300 knots the second
\* normalized heading delta is -176, sharp_turns is emitted and moderate_turns
\* is not, and the maximum load factor is above 1.
C23_ScenarioMinus176 ==
    ScenarioTrack =>
        /\ DeltasComputed => heading_changes[2] = -176
        /\ tag_call = "calculate_linearity" =>
              /\ HasTag(tag_out.tags, "sharp_turns")
              /\ ~HasTag(tag_out.tags, "moderate_turns")
        /\ tag_call = "calculate_g_forces" => LoadFactorAboveOne(tag_out.metrics.max_g)

\* C23: for the headings 90, 92, 268 at 300 knots the second normalized
\* heading delta is +176 (268 - 92, within +-180 and so left as it is),
\* sharp_turns is emitted and moderate_turns is not, and the maximum load
\* factor is above 1.
C23_Scenario ==
    ScenarioTrack =>
        /\ DeltasComputed => heading_changes = << 2, 176 >>
        /\ tag_call \in { "calculate_linearity", "generate_tags_for_track" } =>
              /\ HasTag(tag_out.tags, "sharp_turns")
              /\ ~HasTag(tag_out.tags, "moderate_turns")
        /\ tag_call \in { "calculate_g_forces", "generate_tags_for_track" } =>
              /\ tag_out.metrics.max_g = << 300 * 176 >>
              /\ LoadFactorAboveOne(tag_out.metrics.max_g)

\* calculate_linearity on the track of the scenario
C23_Witness ==
    /\ ScenarioTrack
    /\ tag_call = "calculate_linearity"
    /\ heading_changes = << 2, 176 >>
    /\ HasTag(tag_out.tags, "sharp_turns")

\* the tags classify_aircraft_role can give
RoleTags ==
    { "military_fighter_profile", "tactical_maneuvering",
      "commercial_airliner_profile", "general_aviation_profile" }

\* the role tags of the tag list a call returned
RoleTagsHeld == { t \in RoleTags : HasTag(tag_out.tags, t) }

(* C29: a tag list holds at most two role tags, and two only as              *)
(* tactical_maneuvering with general_aviation_profile: the fighter profile   *)
(* and the airliner profile each stand alone among the role tags.            *)
C29_RoleCombinations ==
    /\ Cardinality(RoleTagsHeld) <= 2
    /\ Cardinality(RoleTagsHeld) = 2
          => RoleTagsHeld = { "tactical_maneuvering", "general_aviation_profile" }

\* a slow, low track with one hard turn carries the one pair
C29_Witness ==
    /\ tag_call = "generate_tags_for_track"
    /\ tag_out.kind = "ok"
    /\ RoleTagsHeld = { "tactical_maneuvering", "general_aviation_profile" }

(* ========================= claims: the table ========================== *)

\* generate_all_tags has returned
AllTagsGenerated ==
    /\ tag_call = "generate_all_tags"
    /\ tag_out.kind = "ok"

\* the table as it was loaded: without the ai_generated_tags column
Loaded(table) ==
    [i \in 1..Len(table) |->
        [c \in DOMAIN table[i] \ { "ai_generated_tags" } |-> table[i][c]]]

\* the joined tag string of the track with the given id
TagStringOf(track_id) ==
    Join(generate_tags_for_track(TrackRows(Loaded(df), track_id)).tags)

\* C20: after generate_all_tags, for every row of the table, in any
\* arrangement of the rows (rows of different tracks interleaved too), the
\* row's ai_generated_tags is the joined tag string of the track whose
\* track_id the row carries, so all rows of one track carry the same string.
C20_PerRowTags ==
    AllTagsGenerated =>
        /\ tags_generated
        /\ \A i \in 1..Len(df) : df[i].ai_generated_tags = TagStringOf(df[i].track_id)
        /\ \A i, j \in 1..Len(df) :
              df[i].track_id = df[j].track_id
                  => df[i].ai_generated_tags = df[j].ai_generated_tags

\* get_tag_statistics has returned a Counter
StatisticsReturned ==
    /\ tag_call = "get_tag_statistics"
    /\ tag_out.kind = "ok"
    /\ tag_out.metrics # << >>

\* every tag a tag string of the table is made of
AllTableTags ==
    UNION { { Split(df[i].ai_generated_tags)[k] :
                k \in 1..Len(Split(df[i].ai_generated_tags)) } : i \in 1..Len(df) }

\* the rows whose tag string holds the tag
RowsWithTag(tag) ==
    { i \in 1..Len(df) :
        \E k \in 1..Len(Split(df[i].ai_generated_tags)) :
            Split(df[i].ai_generated_tags)[k] = tag }

\* C21: get_tag_statistics returns, for every tag, the number of rows whose tag
\* string holds the tag, each row counted: a tag of a track of n rows counts n,
\* a tag shared by tracks of n1 and n2 rows counts n1 + n2.
C21_TagFrequency ==
    StatisticsReturned =>
        \A counts \in { tag_out.metrics[1] } :
            /\ DOMAIN counts = { t \in AllTableTags : RowsWithTag(t) # {} }
            /\ \A t \in DOMAIN counts : counts[t] = Cardinality(RowsWithTag(t))

\* a call made out of order: what it does to the generator and how it ends
OutOfOrderCall ==
    /\ (tag_call' = "generate_all_tags" /\ df = << >>) =>
          /\ tag_out'.kind = "ValueError"
          /\ UNCHANGED table_vars
    /\ (tag_call' = "save_tagged_csv" /\ ~tags_generated) =>
          /\ tag_out'.kind = "ValueError"
          /\ tag_out'.metrics = << >>
          /\ UNCHANGED table_vars
    /\ (tag_call' = "get_tag_statistics" /\ ~tags_generated) =>
          /\ tag_out'.kind = "ok"
          /\ tag_out'.metrics = << >>
          /\ UNCHANGED table_vars

\* C24: generate_all_tags before any load_csv raises an error and leaves the
\* table and the tags_generated flag as they were; save_tagged_csv while
\* tags_generated is false raises an error and writes no file;
\* get_tag_statistics while tags_generated is false returns None and does
\* not fail.
C24_OperationOrder == [][OutOfOrderCall]_vars

\* save_tagged_csv on a loaded table whose tags were not generated
C24_Witness ==
    /\ tag_call = "save_tagged_csv"
    /\ tag_out.kind = "ValueError"
    /\ df # << >>
    /\ ~tags_generated

\* every row of the table has the ai_generated_tags column
HasTagsColumn(table) ==
    \A i \in 1..Len(table) : "ai_generated_tags" \in DOMAIN table[i]

\* C25: after any sequence of load_csv, generate_all_tags, save_tagged_csv and
\* get_tag_statistics calls, tags_generated is true only if the loaded table
\* has the ai_generated_tags column, computed from that same table; so
\* save_tagged_csv never writes a table without tags and get_tag_statistics
\* never fails on a missing column.
C25_FlagMeansTagged ==
    /\ tags_generated =>
          /\ HasTagsColumn(df)
          /\ df = generate_all_tags(Loaded(df), FALSE).df
    /\ (tag_call = "save_tagged_csv" /\ tag_out.metrics # << >>) =>
          HasTagsColumn(tag_out.metrics[1])
    /\ tag_call = "get_tag_statistics" => tag_out.kind # "KeyError"


(* ========================= claims: the viewer ========================== *)

\* an export or the tag generation is past its "no tracks loaded" warning
CanExport == view_tracks # << >>

(* C26: in every state where an export or the tag generation can run, the    *)
(* track list of the viewer is the track list of its extractor.              *)
C26_ViewerTracksMatch == CanExport => view_tracks = get_tracks

\* the viewer shows a file while its extractor holds nothing of it
C26_StaleView == CanExport /\ ext_tracks = << >> /\ last.kind # "ok"

\* _generate_ai_tags has analysed a table
TagsAnalysed ==
    /\ view_last.handler = "_generate_ai_tags"
    /\ view_last.kind = "ok"

(* C27: the table _generate_ai_tags analyses is the CSV export of the tracks *)
(* now loaded, those the viewer shows or those its extractor holds.          *)
C27_TagsOfLoadedTracks ==
    TagsAnalysed =>
        \/ Loaded(df) = export_to_csv(view_tracks)
        \/ Loaded(df) = export_to_csv(ext_tracks)

\* tags were generated for the rows of a file that is no longer loaded
C27_StaleCsv ==
    /\ TagsAnalysed
    /\ view_tracks = ext_tracks
    /\ Loaded(df) # export_to_csv(ext_tracks)

(* C28: selected_track_index is None or an index of the viewer's track list. *)
C28_SelectionValid ==
    selected_track_index = << >> \/ selected_track_index[1] < Len(view_tracks)

\* the selection points past the end of the list a later load brought
C28_StaleSelection ==
    /\ selected_track_index # << >>
    /\ selected_track_index[1] >= Len(view_tracks)
    /\ view_last.handler = "_load_file"

\* the last call of read_binary returned, a file of the viewer being read
ReadReturned ==
    /\ view_last.handler = "_load_file"
    /\ last.kind = "ok"

(* C30: after a read_binary that returned, the tracks and the version of the *)
(* extractor are those of the file it read, in the order of the file, with   *)
(* nothing of the files read before.                                         *)
C30_NoAccumulation ==
    ReadReturned =>
        \A file \in ViewerFiles :
            disk = save_to_binary(file) =>
                /\ ext_tracks = file
                /\ get_tracks = file
                /\ last.ret_tracks = file
                /\ ext_version = << VERSION >>

\* the file of one track read after the file of two was shown and exported
C30_Witness ==
    /\ ReadReturned
    /\ disk = save_to_binary(<< ViewerTrack(2) >>)
    /\ ext_tracks = << ViewerTrack(2) >>
    /\ csv_files["tracks.csv"] = << export_to_csv(<< ViewerTrack(1), ViewerTrack(2) >>) >>
=============================================================================
